---- MODULE Spec2Model ----
(***************************************************************************)
(* A model of the RNAknotDetector core: the pseudoknot main-layer          *)
(* extractor (pseudoknot_decomposition.cpp), the loop builder              *)
(* (entanglement_core.cpp, loop_utils.h), the surface builder              *)
(* (surface_builder.cpp, entanglement.cpp) and the entanglement evaluator  *)
(* (entanglement.cpp).  The library is stateless between calls: the state  *)
(* of the model is one call, its arguments and what it returned.           *)
(***************************************************************************)
EXTENDS Integers, Sequences, FiniteSets, TLC

VARIABLES
  pc,          \* "idle", or the operation that has been called and has returned
  base_pairs,  \* argument: std::vector<BasePair>
  n_res,       \* argument: int n_res of BuildLoops
  options,     \* argument: LoopBuildOptions / variant of the surface builder
  layer,       \* return value of ExtractMainLayer
  loops,       \* return value of BuildLoops
  error,       \* "none", or the what() of the exception the call threw
  coords,      \* argument: std::vector<ResidueCoord>
  surfaces,    \* argument of EvaluateEntanglement / return value of BuildSurfaces
  geom,        \* the geometry of coords and surfaces: the pairs <<k, i>> such that
               \* the segment (i, i+1) crosses the plane of surfaces[k] inside its polygon
  result,      \* return value of EvaluateEntanglement: [K, hits]
  surface_options,  \* argument of BuildSurfaces: [atom_index, surface_mode]
  linked,      \* the source file whose BuildSurfaces the build links
  pair_map_out,   \* return value of BuildPairMap
  coord_map_out,  \* return value of BuildCoordMap: [n_res, coords, has_coord]
  segments_out,   \* the segments of the last evaluation / return value of BuildSegmentsFromPolyline
  crossing_out,   \* arguments and return value of SegmentPlaneIntersection, and the
                  \* outcome of the segment test of EvaluateEntanglement that calls it
  hull_out,       \* argument and return value of ConvexHull
  loops_multi,    \* return value of BuildLoops for the same arguments with include_multi set
  trace_out       \* what ExtractMainLayerPairs did in the last call of ExtractMainLayer: gamma[0][L-1], the
                  \* number of pairs emitted, of worklist nodes popped and of nodes
                  \* that matched no case

vars == <<pc, base_pairs, n_res, options, layer, loops, error, coords, surfaces, geom, result,
          surface_options, linked, pair_map_out, coord_map_out, segments_out,
          crossing_out, hull_out, trace_out, loops_multi>>

(***************************************************************************)
(* Bounds of the model.                                                    *)
(***************************************************************************)
\* structures (lists of distinct pairs i < j) range over residues 1..MaxRes
MaxRes == 6
\* and hold at most MaxPairs pairs
MaxPairs == 3
\* arbitrary (possibly malformed) pair lists range over SmallRes residues
SmallRes == 4
\* and hold at most SmallPairs pairs
SmallPairs == 2
\* coordinate lists given to EvaluateEntanglement alone hold at most EvalRes residues
EvalRes == 3
\* surface lists given to EvaluateEntanglement alone hold at most MaxSurfaces surfaces
MaxSurfaces == 2
\* whose loop ids are drawn from LoopIds
LoopIds == {1, 2}
\* and of which at most MaxPierced (surface, segment) pairs pierce
MaxPierced == 2
\* the structures taken through BuildLoops, BuildSurfaces and
\* EvaluateEntanglement have PipeRes residues
PipeRes == 7
\* coordinate lists given to BuildCoordMap alone hold at most CoordRecs records
CoordRecs == 3

\* the 2-D points have coordinates in 0..GridMax
GridMax == 2

\* ConvexHull is called with up to HullPoints points
HullPoints == 4

(***************************************************************************)
(* Generic helpers.                                                        *)
(***************************************************************************)
Min(a, b) == IF a < b THEN a ELSE b

Max(a, b) == IF a > b THEN a ELSE b

Range(s) == {s[k] : k \in 1..Len(s)}

MaxOf(S) == CHOOSE x \in S : \A y \in S : y <= x

MinOf(S) == CHOOSE x \in S : \A y \in S : x <= y

RECURSIVE SortedSeq(_)
\* std::sort + std::unique of a set of integers
SortedSeq(S) ==
  IF S = {} THEN <<>>
  ELSE <<MinOf(S)>> \o SortedSeq(S \ {MinOf(S)})

SeqsUpTo(S, n) == UNION {[1..k -> S] : k \in 0..n}

\* a local variable: F(v), with the initialiser v evaluated once
Bind(v, F(_)) == CHOOSE y \in {F(x) : x \in {v}} : TRUE

NoError == "none"

ErrSelfPaired == "Base pair cannot be self-paired"

ErrOutOfRange == "Base pair index out of range"

ErrMultiplyPaired == "Residue paired multiple times"

ErrNRes == "n_res must be positive"

BasePairTypes == {"kCanonical", "kNonCanonical"}

BasePair(i, j, t) == [i |-> i, j |-> j, bp_type |-> t]

\* pair_utils.h: SortedPair
SortedPair(bp) == <<Min(bp.i, bp.j), Max(bp.i, bp.j)>>

(***************************************************************************)
(* pseudoknot_decomposition.cpp                                            *)
(***************************************************************************)
\* (a << 32) | uint32(b) is injective on the 32-bit pairs (a, b): the key is
\* the sorted pair itself.
PairKey(i, j) == <<Min(i, j), Max(i, j)>>

RECURSIVE KeepFirst(_, _)
\* `rs` appended to `seen` without the residues already there
KeepFirst(seen, rs) ==
  IF rs = <<>> THEN seen
  ELSE KeepFirst(IF Head(rs) \in Range(seen) THEN seen ELSE Append(seen, Head(rs)), Tail(rs))

\* mutant of UniqueSortedResidues: the residues are left in the order of the pairs
UniqueResiduesUnsorted(pairs) ==
  KeepFirst(<<>>, [k \in 1..(2 * Len(pairs)) |->
                     pairs[(k + 1) \div 2][IF k % 2 = 1 THEN 1 ELSE 2]])

\* the residues of the pairs, sorted, each once
UniqueSortedResidues(pairs) ==
  SortedSeq({p[1] : p \in Range(pairs)} \cup {p[2] : p \in Range(pairs)})

\* hash.at(r): the 0-based position of r in inv_hash
HashAt(inv_hash, r) == CHOOSE idx \in 0..(Len(inv_hash) - 1) : inv_hash[idx + 1] = r

CompressPairs(pairs, inv_hash) ==
  [k \in 1..Len(pairs) |-> <<HashAt(inv_hash, pairs[k][1]), HashAt(inv_hash, pairs[k][2])>>]

\* mutant of DecompressPairs: each index is mapped to the residue after its own
DecompressPairsShifted(pairs, inv_hash) ==
  [k \in 1..Len(pairs) |-> <<inv_hash[pairs[k][1] + 1] + 1, inv_hash[pairs[k][2] + 1] + 1>>]

DecompressPairs(pairs, inv_hash) ==
  [k \in 1..Len(pairs) |-> <<inv_hash[pairs[k][1] + 1], inv_hash[pairs[k][2] + 1]>>]

\* the lambda gamma_value: 0 outside the table and for i > j
gamma_value(gamma, L, i, j) ==
  IF i < 0 \/ j < 0 \/ i >= L \/ j >= L THEN 0
  ELSE IF i > j THEN 0
  ELSE gamma[<<i, j>>]

\* mutant of GammaCell: the bifurcation term gamma(i,k) + gamma(k+1,j) is left out
GammaCellNoSplit(gamma, L, pair_set, i, j) ==
  LET best0 == Max(gamma_value(gamma, L, i + 1, j), gamma_value(gamma, L, i, j - 1))
      diag == gamma_value(gamma, L, i + 1, j - 1)
  IN IF PairKey(i, j) \in pair_set THEN Max(best0, diag + 1) ELSE Max(best0, diag)

\* the body of the inner loop of the table fill: the value stored in gamma[i][j]
GammaCell(gamma, L, pair_set, i, j) ==
  LET best0 == Max(gamma_value(gamma, L, i + 1, j), gamma_value(gamma, L, i, j - 1))
      diag == gamma_value(gamma, L, i + 1, j - 1)
      best1 == IF PairKey(i, j) \in pair_set THEN Max(best0, diag + 1) ELSE Max(best0, diag)
  IN MaxOf({best1} \cup
           {gamma_value(gamma, L, i, k) + gamma_value(gamma, L, k + 1, j) : k \in i..(j - 1)})

RECURSIVE GammaFill(_, _, _, _)
\* for (d = 1; d < L; ++d) for (i = 0; i + d < L; ++i): cells of one d read
\* only cells of smaller d
GammaFill(gamma, L, pair_set, d) ==
  IF d >= L THEN gamma
  ELSE LET filled == [c \in DOMAIN gamma |->
                        IF c[2] - c[1] = d THEN GammaCell(gamma, L, pair_set, c[1], c[2])
                        ELSE gamma[c]]
       IN \* (the comparison makes TLC tabulate the row before the next one reads it)
          IF filled = gamma THEN GammaFill(gamma, L, pair_set, d + 1)
          ELSE GammaFill(filled, L, pair_set, d + 1)

GammaTable(L, pair_set) ==
  GammaFill([c \in (0..(L - 1)) \X (0..(L - 1)) |-> 0], L, pair_set, 1)

\* variant: the pair is put on the layer twice
EmitPairTwice(layer_pairs, i, j) == layer_pairs \o <<(<<i, j>>), (<<i, j>>)>>

\* layer.emplace_back(i, j)
EmitPair(layer_pairs, i, j) == Append(layer_pairs, <<i, j>>)

\* variant: the split case pushes only (k + 1, j)
SplitNodesRightOnly(i, k, j) == <<(<<k + 1, j>>)>>

\* the two nodes pushed by the split case at k: (k + 1, j), then (i, k)
SplitNodes(i, k, j) == <<(<<k + 1, j>>), (<<i, k>>)>>

\* one iteration of while (!trace_stack.empty()); st = [stack, layer, route, dropped]
\* (dropped counts the nodes that matched none of the four cases)
TraceStep(gamma, L, pair_set, st) ==
  LET node == st.stack[Len(st.stack)]
      rest == SubSeq(st.stack, 1, Len(st.stack) - 1)
      i == node[1]
      j == node[2]
  IN IF i >= j THEN [st EXCEPT !.stack = rest]
     ELSE IF gamma_value(gamma, L, i + 1, j) = gamma[<<i, j>>]
       THEN [st EXCEPT !.stack = Append(rest, <<i + 1, j>>)]
     ELSE IF gamma_value(gamma, L, i, j - 1) = gamma[<<i, j>>]
       THEN [st EXCEPT !.stack = Append(rest, <<i, j - 1>>)]
     ELSE IF /\ PairKey(i, j) \in pair_set
             /\ gamma_value(gamma, L, i + 1, j - 1) + 1 = gamma[<<i, j>>]
             /\ st.route[i] = "." /\ st.route[j] = "."
       THEN [st EXCEPT !.stack = Append(rest, <<i + 1, j - 1>>),
                       !.layer = EmitPair(st.layer, i, j),
                       !.route = [st.route EXCEPT ![i] = "(", ![j] = ")"]]
     ELSE LET ks == {k \in i..(j - 1) :
                       gamma_value(gamma, L, i, k) + gamma_value(gamma, L, k + 1, j)
                         = gamma[<<i, j>>]}
          IN IF ks = {} THEN [st EXCEPT !.stack = rest, !.dropped = st.dropped + 1]
             ELSE [st EXCEPT !.stack = rest \o SplitNodes(i, MinOf(ks), j)]

RECURSIVE Backtrace(_, _, _, _)
\* while (!trace_stack.empty()); steps counts the iterations
Backtrace(gamma, L, pair_set, st) ==
  IF st.stack = <<>> THEN st
  ELSE Backtrace(gamma, L, pair_set,
                 [TraceStep(gamma, L, pair_set, st) EXCEPT !.steps = st.steps + 1])

\* the whole trace of a pair list (of std::pair<int,int>): table and final worklist state
MainLayerTrace(pairs) ==
  LET inv_hash == UniqueSortedResidues(pairs)
      compressed == CompressPairs(pairs, inv_hash)
      L == Len(inv_hash)
      pair_set == {PairKey(p[1], p[2]) : p \in Range(compressed)}
      gamma == GammaTable(L, pair_set)
      final == Backtrace(gamma, L, pair_set,
                         [stack |-> <<(<<0, L - 1>>)>>, layer |-> <<>>,
                          route |-> [r \in 0..(L - 1) |-> "."], dropped |-> 0,
                          steps |-> 0])
  IN [inv_hash |-> inv_hash, L |-> L, gamma |-> gamma,
      layer |-> final.layer, dropped |-> final.dropped, steps |-> final.steps]

NoTrace == [L |-> 0, gamma_top |-> 0, emitted |-> 0, steps |-> 0, dropped |-> 0]

\* what the run of ExtractMainLayerPairs inside ExtractMainLayer(bps) did
TraceOf(bps) ==
  IF bps = <<>> \/ (\E k \in 1..Len(bps) : bps[k].i = bps[k].j) THEN NoTrace
  ELSE LET t == MainLayerTrace([k \in 1..Len(bps) |-> SortedPair(bps[k])])
       IN [L |-> t.L, gamma_top |-> t.gamma[<<0, t.L - 1>>], emitted |-> Len(t.layer),
           steps |-> t.steps, dropped |-> t.dropped]

ExtractMainLayerPairs(pairs) ==
  IF pairs = <<>> THEN <<>>
  ELSE LET t == MainLayerTrace(pairs) IN DecompressPairs(t.layer, t.inv_hash)

\* mutant of TypeMapFind: the tags are stored under (bp.i, bp.j) as given
TypeMapFindAsGiven(bps, key) ==
  LET ks == {k \in 1..Len(bps) : <<bps[k].i, bps[k].j>> = key}
  IN IF ks = {} THEN "kUnclassified" ELSE bps[MinOf(ks)].bp_type

\* type_map.emplace keeps the first tag inserted for a key
TypeMapFind(bps, key) ==
  LET ks == {k \in 1..Len(bps) : SortedPair(bps[k]) = key}
  IN IF ks = {} THEN "kUnclassified" ELSE bps[MinOf(ks)].bp_type

\* returns [error, value]: the exception thrown, or the layer
ExtractMainLayerFromBasePairs(bps) ==
  IF bps = <<>> THEN [error |-> NoError, value |-> <<>>]
  ELSE IF \E k \in 1..Len(bps) : bps[k].i = bps[k].j
    THEN [error |-> ErrSelfPaired, value |-> <<>>]
  ELSE LET pairs == [k \in 1..Len(bps) |-> SortedPair(bps[k])]
           layer_pairs == ExtractMainLayerPairs(pairs)
       IN [error |-> NoError,
           value |-> [k \in 1..Len(layer_pairs) |->
                        BasePair(layer_pairs[k][1], layer_pairs[k][2],
                                 TypeMapFind(bps, PairKey(layer_pairs[k][1], layer_pairs[k][2])))]]

\* entanglement_core.cpp: ExtractMainLayer
ExtractMainLayer(bps) ==
  IF bps = <<>> THEN [error |-> NoError, value |-> <<>>]
  ELSE ExtractMainLayerFromBasePairs(bps)

(***************************************************************************)
(* loop_utils.h / entanglement_core.cpp: pair map and loop classifier      *)
(***************************************************************************)
\* mutant of OutOfRange: the last residue n_res is taken to be out of range
OutOfRangeOffByOne(bp, n) == bp.i <= 0 \/ bp.j <= 0 \/ bp.i >= n \/ bp.j >= n

\* bp.i <= 0 || bp.j <= 0 || bp.i > n_res || bp.j > n_res
OutOfRange(bp, n) == bp.i <= 0 \/ bp.j <= 0 \/ bp.i > n \/ bp.j > n

\* mutant of SetPair: only the left residue gets its partner
SetPairOneWay(pair_map, i, j) == [pair_map EXCEPT ![i] = j]

\* pair_map[i] = j; pair_map[j] = i;
SetPair(pair_map, i, j) == [pair_map EXCEPT ![i] = j, ![j] = i]

\* variant: only the left residue is looked up
PairTakenLeftOnly(pair_map, i, j) == pair_map[i] # 0

\* pair_map[i] != 0 || pair_map[j] != 0
PairTaken(pair_map, i, j) == pair_map[i] # 0 \/ pair_map[j] # 0

RECURSIVE BuildPairMapFrom(_, _, _, _)
\* the loop of BuildPairMap from the k-th pair on; [error, map]
BuildPairMapFrom(bps, n, k, pair_map) ==
  IF k > Len(bps) THEN [error |-> NoError, map |-> pair_map]
  ELSE LET bp == bps[k]
           i == SortedPair(bp)[1]
           j == SortedPair(bp)[2]
       IN IF OutOfRange(bp, n)
            THEN [error |-> ErrOutOfRange, map |-> pair_map]
          ELSE IF bp.i = bp.j
            THEN [error |-> ErrSelfPaired, map |-> pair_map]
          ELSE IF PairTaken(pair_map, i, j)
            THEN [error |-> ErrMultiplyPaired, map |-> pair_map]
          ELSE BuildPairMapFrom(bps, n, k + 1, SetPair(pair_map, i, j))

\* std::vector<int> pair_map(n_res + 1, 0)
BuildPairMap(bps, n) == BuildPairMapFrom(bps, n, 1, [r \in 0..n |-> 0])

IsPaired(pair_map, idx) == pair_map[idx] # 0

RECURSIVE CollectUnpairedHalfOpen(_, _, _)
\* mutant of CollectUnpaired: the residue `end` is left out
CollectUnpairedHalfOpen(pair_map, start, end) ==
  IF start >= end THEN <<>>
  ELSE (IF IsPaired(pair_map, start) THEN <<>> ELSE <<start>>)
         \o CollectUnpairedHalfOpen(pair_map, start + 1, end)

RECURSIVE CollectUnpaired(_, _, _)
CollectUnpaired(pair_map, start, end) ==
  IF start > end THEN <<>>
  ELSE (IF IsPaired(pair_map, start) THEN <<>> ELSE <<start>>)
         \o CollectUnpaired(pair_map, start + 1, end)

\* mutant of OpensChild: the nesting depth is ignored
OpensChildAnyDepth(depth) == depth >= 0

\* whether a residue met at nesting depth `depth` opens a child pair
OpensChild(depth) == depth = 0

RECURSIVE FindChildPairsFrom(_, _, _, _, _)
\* the scan of FindChildPairs from idx on, at nesting depth `depth`
FindChildPairsFrom(pair_map, idx, j, depth, child_pairs) ==
  IF idx > j - 1 THEN child_pairs
  ELSE IF ~IsPaired(pair_map, idx)
    THEN FindChildPairsFrom(pair_map, idx + 1, j, depth, child_pairs)
  ELSE LET partner == pair_map[idx]
       IN IF idx < partner
            THEN FindChildPairsFrom(pair_map, idx + 1, j, depth + 1,
                   IF OpensChild(depth)
                     THEN Append(child_pairs, BasePair(idx, partner, "kUnclassified"))
                     ELSE child_pairs)
          ELSE IF idx > partner
            THEN FindChildPairsFrom(pair_map, idx + 1, j, depth - 1, child_pairs)
          ELSE FindChildPairsFrom(pair_map, idx + 1, j, depth, child_pairs)

FindChildPairs(pair_map, i, j) == FindChildPairsFrom(pair_map, i + 1, j, 0, <<>>)

\* mutant of KindOf: a single child already makes a multi loop
KindOfOneChildMulti(n_children) ==
  IF n_children = 0 THEN "kHairpin" ELSE "kMulti"

\* the kind for a number of immediate child pairs
KindOf(n_children) ==
  IF n_children = 0 THEN "kHairpin"
  ELSE IF n_children = 1 THEN "kInternal"
  ELSE "kMulti"

\* [kind, boundary, closing_pairs]
ClassifyLoop(pair_map, i, j) ==
  LET child_pairs == FindChildPairs(pair_map, i, j)
      closing_pairs == <<BasePair(i, j, "kUnclassified")>> \o child_pairs
      kind == KindOf(Len(child_pairs))
  IN [kind |-> kind,
      closing_pairs |-> closing_pairs,
      boundary |->
        IF kind = "kInternal"
          THEN LET k == SortedPair(child_pairs[1])[1]
                   l == SortedPair(child_pairs[1])[2]
               IN CollectUnpaired(pair_map, i + 1, k - 1)
                    \o CollectUnpaired(pair_map, l + 1, j - 1)
        ELSE CollectUnpaired(pair_map, i + 1, j - 1)]

\* mutant of NextLoopId: ids start at 0
NextLoopIdFromZero(loops_so_far) == Len(loops_so_far)

\* the id given to the loop appended to `loops_so_far`: loop.id = loop_id++
NextLoopId(loops_so_far) == Len(loops_so_far) + 1

\* variant: no loop is left out
OmitLoopNever(kind, opts) == FALSE

\* kind == LoopKind::kMulti && !options.include_multi
OmitLoop(kind, opts) == kind = "kMulti" /\ ~opts.include_multi

RECURSIVE BuildLoopsFrom(_, _, _, _, _)
\* for (int i = ...; i <= n_res; ++i) of BuildLoops
BuildLoopsFrom(pair_map, n, opts, i, acc) ==
  IF i > n THEN acc
  ELSE LET j == pair_map[i]
       IN IF j = 0 \/ i > j THEN BuildLoopsFrom(pair_map, n, opts, i + 1, acc)
          ELSE Bind(ClassifyLoop(pair_map, i, j), LAMBDA c :
                 IF OmitLoop(c.kind, opts)
                   THEN BuildLoopsFrom(pair_map, n, opts, i + 1, acc)
                 ELSE BuildLoopsFrom(pair_map, n, opts, i + 1,
                        Append(acc, [id |-> NextLoopId(acc),
                                     kind |-> c.kind,
                                     closing_pairs |-> c.closing_pairs,
                                     boundary_residues |-> c.boundary])))

\* the pairs BuildLoops builds its pair map from; [error, value]
FilteredPairs(bps, opts) ==
  IF opts.main_layer_only THEN ExtractMainLayer(bps)
  ELSE [error |-> NoError, value |-> bps]

\* [error, value]
BuildLoops(bps, n, opts) ==
  IF n <= 0 THEN [error |-> ErrNRes, value |-> <<>>]
  ELSE Bind(FilteredPairs(bps, opts), LAMBDA filtered :
         IF filtered.error # NoError THEN [error |-> filtered.error, value |-> <<>>]
         ELSE Bind(BuildPairMap(filtered.value, n), LAMBDA pm :
                IF pm.error # NoError THEN [error |-> pm.error, value |-> <<>>]
                ELSE [error |-> NoError,
                      value |-> BuildLoopsFrom(pm.map, n, opts, 1, <<>>)]))

(***************************************************************************)
(* loop_utils.h and entanglement.cpp: skip residues                        *)
(***************************************************************************)
\* the list i, i+1, ..., j (empty when i > j)
Interval(i, j) == [k \in 1..(IF j >= i THEN j - i + 1 ELSE 0) |-> i + k - 1]

RECURSIVE Flatten(_)
Flatten(ss) == IF ss = <<>> THEN <<>> ELSE Head(ss) \o Flatten(Tail(ss))

\* the hairpin and internal cases, which the two copies share
SkipResiduesCommon(loop) ==
  LET i == SortedPair(loop.closing_pairs[1])[1]
      j == SortedPair(loop.closing_pairs[1])[2]
  IN IF loop.kind = "kHairpin" THEN Interval(i, j)
     ELSE IF Len(loop.closing_pairs) < 2 THEN Interval(i, j)
     ELSE LET k == SortedPair(loop.closing_pairs[2])[1]
              l == SortedPair(loop.closing_pairs[2])[2]
          IN Interval(i, k) \o Interval(l, j)

\* loop_utils.h: BuildSkipResidues (called by surface_builder.cpp)
BuildSkipResidues(loop) ==
  IF loop.closing_pairs = <<>> THEN <<>>
  ELSE IF loop.kind \in {"kHairpin", "kInternal"} THEN SkipResiduesCommon(loop)
  ELSE IF loop.kind = "kMulti"
    THEN LET ends == Flatten([k \in 1..Len(loop.closing_pairs) |->
                                <<SortedPair(loop.closing_pairs[k])[1],
                                  SortedPair(loop.closing_pairs[k])[2]>>])
         IN ends \o Interval(MinOf(Range(ends)), MaxOf(Range(ends)))
  ELSE <<>>

\* entanglement.cpp: BuildSkipResidues (called by the BuildSurfaces of that
\* file): there is no kMulti case
BuildSkipResiduesMono(loop) ==
  IF loop.closing_pairs = <<>> THEN <<>>
  ELSE IF loop.kind \in {"kHairpin", "kInternal"} THEN SkipResiduesCommon(loop)
  ELSE <<>>

(***************************************************************************)
(* entanglement.cpp: EvaluateEntanglement                                  *)
(***************************************************************************)
\* the table the second loop of BuildCoordMap fills from the records `stored`
\* (positions in crds): a later record overwrites the coordinate of an earlier
\* one, and the residues never stored keep the value-initialised Vec3
CoordTable(crds, atom_index, max_index, stored) ==
  [n_res |-> max_index,
   coords |-> [r \in 0..max_index |->
                 LET at == {k \in stored : crds[k].res_index = r}
                 IN IF at = {} THEN "origin" ELSE crds[MaxOf(at)].atoms[atom_index + 1]],
   has_coord |-> [r \in 0..max_index |-> \E k \in stored : crds[k].res_index = r]]

\* entanglement.cpp: BuildCoordMap; [n_res, coords, has_coord]
BuildCoordMapMono(crds, atom_index) ==
  LET max_index == MaxOf({0} \cup {crds[k].res_index : k \in 1..Len(crds)})
  IN CoordTable(crds, atom_index, max_index,
       {k \in 1..Len(crds) :
          /\ ~(crds[k].res_index <= 0 \/ crds[k].res_index > max_index)
          /\ ~(atom_index < 0 \/ atom_index >= Len(crds[k].atoms))})

\* variant: a link is kept when one of its two residues has a coordinate
LinkHasCoordEitherEnd(map, i) == map.has_coord[i] \/ map.has_coord[i + 1]

\* !(!map.has_coord[i] || !map.has_coord[i + 1])
LinkHasCoord(map, i) == ~(~map.has_coord[i] \/ ~map.has_coord[i + 1])

\* the segments built for the links (i, i+1): Segment{i, coords[i], coords[i+1]}
BuildSegments(map) ==
  LET ids == {i \in 1..(map.n_res - 1) : LinkHasCoord(map, i)}
  IN [k \in 1..Cardinality(ids) |->
        [id |-> SortedSeq(ids)[k],
         a |-> map.coords[SortedSeq(ids)[k]],
         b |-> map.coords[SortedSeq(ids)[k] + 1]]]

\* (loop_id << 32) | uint32(segment_id) is injective on pairs of 32-bit ints
HitKey(loop_id, segment_id) == <<loop_id, segment_id>>

\* std::vector<char> skip_mask(n_res + 1, 0) filled from surface.skip_residues
SkipMask(surface, map) ==
  [r \in 0..map.n_res |->
     \E k \in 1..Len(surface.skip_residues) :
       surface.skip_residues[k] = r /\ r > 0 /\ r <= map.n_res]

\* variant: only the left end of the segment is looked up
SkippedByMaskLeftOnly(skip_mask, i) == skip_mask[i]

\* skip_mask[i] || skip_mask[i + 1]
SkippedByMask(skip_mask, i) == skip_mask[i] \/ skip_mask[i + 1]

\* variant: every key counts as new
KeyIsNewAlways(hit_keys, key) == TRUE

\* variant: a key counts as new only if its loop has no hit yet
KeyIsNewLoop(hit_keys, key) == \A seen \in hit_keys : seen[1] # key[1]

\* hit_keys.insert(key).second
KeyIsNew(hit_keys, key) == key \notin hit_keys

\* variant: the hit is put in front of the list
RecordHitInFront(hits, hit) == <<hit>> \o hits

\* result.hits.push_back(HitInfo{...})
RecordHit(hits, hit) == Append(hits, hit)

\* !surface.plane.valid || !surface.polygon.valid
InvalidSurface(surface) == ~surface.plane.valid \/ ~surface.polygon.valid

\* SegmentPlaneIntersection(...) && PointInPolygon2D(...) for the segment `i`
\* and the k-th surface, as the geometry g has it
Pierces(g, k, i) == <<k, i>> \in g

RECURSIVE EvalSegmentsFrom(_, _, _, _, _, _, _)
\* for (const auto &segment : segments) from the m-th segment on; acc = [hits, hit_keys]
EvalSegmentsFrom(srfs, k, skip_mask, segments, m, g, acc) ==
  IF m > Len(segments) THEN acc
  ELSE LET i == segments[m].id
           key == HitKey(srfs[k].loop_id, i)
       IN IF SkippedByMask(skip_mask, i)
            THEN EvalSegmentsFrom(srfs, k, skip_mask, segments, m + 1, g, acc)
          ELSE IF ~Pierces(g, k, i)
            THEN EvalSegmentsFrom(srfs, k, skip_mask, segments, m + 1, g, acc)
          ELSE IF KeyIsNew(acc.hit_keys, key)
            THEN EvalSegmentsFrom(srfs, k, skip_mask, segments, m + 1, g,
                   [hits |-> RecordHit(acc.hits, [loop_id |-> srfs[k].loop_id, segment_id |-> i]),
                    hit_keys |-> acc.hit_keys \cup {key}])
          ELSE EvalSegmentsFrom(srfs, k, skip_mask, segments, m + 1, g, acc)

RECURSIVE EvalSurfacesFrom(_, _, _, _, _, _)
\* for (const auto &surface : surfaces) from the k-th surface on
EvalSurfacesFrom(srfs, k, map, segments, g, acc) ==
  IF k > Len(srfs) THEN acc
  ELSE IF InvalidSurface(srfs[k])
    THEN EvalSurfacesFrom(srfs, k + 1, map, segments, g, acc)
  ELSE Bind(SkipMask(srfs[k], map), LAMBDA skip_mask :
         Bind(EvalSegmentsFrom(srfs, k, skip_mask, segments, 1, g, acc), LAMBDA acc2 :
           EvalSurfacesFrom(srfs, k + 1, map, segments, g, acc2)))

\* the local `segments` of EvaluateEntanglement (none after the early return)
EvalSegments(crds, atom_index) ==
  Bind(BuildCoordMapMono(crds, atom_index), LAMBDA map :
    IF map.n_res <= 1 THEN <<>> ELSE BuildSegments(map))

\* [K, hits]
EvaluateEntanglement(crds, srfs, atom_index, g) ==
  Bind(BuildCoordMapMono(crds, atom_index), LAMBDA map :
    IF map.n_res <= 1 THEN [K |-> 0, hits |-> <<>>]
    ELSE Bind(BuildSegments(map), LAMBDA segments :
           Bind(EvalSurfacesFrom(srfs, 1, map, segments, g, [hits |-> <<>>, hit_keys |-> {}]),
                LAMBDA acc : [K |-> Len(acc.hits), hits |-> acc.hits])))

(***************************************************************************)
(* coord_utils.h, surface_builder.cpp and entanglement.cpp: BuildSurfaces  *)
(***************************************************************************)
\* std::isfinite on the three components of a point
IsFiniteCoord(v) == v # "nan"

\* coord_utils.h: BuildCoordMap; [n_res, coords, has_coord]
BuildCoordMap(crds, atom_index) ==
  LET max_index == MaxOf({0} \cup {crds[k].res_index : k \in 1..Len(crds)})
  IN CoordTable(crds, atom_index, max_index,
       {k \in 1..Len(crds) :
          /\ ~(crds[k].res_index <= 0 \/ crds[k].res_index > max_index)
          /\ ~(atom_index < 0 \/ atom_index >= Len(crds[k].atoms))
          /\ IsFiniteCoord(crds[k].atoms[atom_index + 1])})

\* coord_utils.h: BuildPolylinePoints; for each residue its P point, then its
\* C4 point, where present
BuildPolylinePoints(crds, atom_index_p, atom_index_c4) ==
  LET map_p == BuildCoordMap(crds, atom_index_p)
      map_c4 == BuildCoordMap(crds, atom_index_c4)
      n == Max(map_p.n_res, map_c4.n_res)
  IN Flatten([i \in 1..n |->
       (IF i <= map_p.n_res /\ map_p.has_coord[i]
          THEN <<[res_index |-> i, atom_kind |-> "kP"]>> ELSE <<>>)
       \o (IF i <= map_c4.n_res /\ map_c4.has_coord[i]
            THEN <<[res_index |-> i, atom_kind |-> "kC4"]>> ELSE <<>>)])

\* coord_utils.h: BuildSegmentsFromPolyline
BuildSegmentsFromPolyline(points) ==
  IF Len(points) < 2 THEN <<>>
  ELSE [i \in 1..(Len(points) - 1) |->
          [id |-> i,
           res_a |-> points[i].res_index, res_b |-> points[i + 1].res_index,
           atom_a |-> points[i].atom_kind, atom_b |-> points[i + 1].atom_kind]]

RECURSIVE AddIndicesWithRepeats(_, _, _)
\* variant: add_index without the `seen` test
AddIndicesWithRepeats(boundary_indices, rs, n) ==
  IF rs = <<>> THEN boundary_indices
  ELSE LET r == Head(rs)
       IN IF r <= 0 \/ r > n
            THEN AddIndicesWithRepeats(boundary_indices, Tail(rs), n)
          ELSE AddIndicesWithRepeats(Append(boundary_indices, r), Tail(rs), n)

RECURSIVE AddIndices(_, _, _)
\* add_index applied to each element of `rs` in turn: out-of-range and
\* already seen residues are dropped
AddIndices(boundary_indices, rs, n) ==
  IF rs = <<>> THEN boundary_indices
  ELSE LET r == Head(rs)
       IN IF r <= 0 \/ r > n \/ r \in Range(boundary_indices)
            THEN AddIndices(boundary_indices, Tail(rs), n)
          ELSE AddIndices(Append(boundary_indices, r), Tail(rs), n)

\* pair.i, pair.j of each closing pair in turn
PairEnds(closing_pairs) ==
  Flatten([k \in 1..Len(closing_pairs) |-> <<closing_pairs[k].i, closing_pairs[k].j>>])

\* the branches for the loops that are not multi loops, which the two copies share
BoundaryIndicesCommon(loop, n) ==
  IF loop.closing_pairs = <<>> THEN AddIndices(<<>>, loop.boundary_residues, n)
  ELSE LET i == SortedPair(loop.closing_pairs[1])[1]
           j == SortedPair(loop.closing_pairs[1])[2]
       IN IF loop.kind = "kHairpin" THEN AddIndices(<<>>, Interval(i, j), n)
          ELSE IF loop.kind = "kInternal"
            THEN IF Len(loop.closing_pairs) >= 2
                   THEN LET h == SortedPair(loop.closing_pairs[2])[1]
                            l == SortedPair(loop.closing_pairs[2])[2]
                        IN AddIndices(<<>>, Interval(i, h - 1) \o <<h, l>>
                                              \o Interval(l + 1, j - 1) \o <<i, j>>, n)
                 ELSE AddIndices(<<>>, Interval(i, j), n)
          ELSE AddIndices(<<>>, loop.boundary_residues \o PairEnds(loop.closing_pairs), n)

\* surface_builder.cpp: BuildBoundaryIndices
BuildBoundaryIndices(loop, n) ==
  IF loop.kind = "kMulti"
    THEN AddIndices(<<>>, loop.boundary_residues \o PairEnds(loop.closing_pairs), n)
  ELSE BoundaryIndicesCommon(loop, n)

\* entanglement.cpp: the boundary indices BuildSurfaces collects; for a multi
\* loop the outer strand up to the first branch and that branch's pair
BoundaryIndicesMono(loop, n) ==
  IF loop.kind = "kMulti"
    THEN LET pairs == {SortedPair(loop.closing_pairs[k]) : k \in 1..Len(loop.closing_pairs)}
         IN IF pairs = {} THEN <<>>
            ELSE LET l == MinOf({q[1] : q \in pairs})
                     front == CHOOSE q \in pairs : q[1] = l /\ \A q2 \in pairs : q2[1] = l => q[2] <= q2[2]
                     later == {q \in pairs : q[1] > l}
                 IN IF later # {}
                      THEN LET i_branch == MinOf({q[1] : q \in later})
                               j_branch == MinOf({q[2] : q \in {q2 \in later : q2[1] = i_branch}})
                           IN AddIndices(<<>>, Interval(l, i_branch - 1) \o <<i_branch, j_branch>>, n)
                    ELSE AddIndices(<<>>, <<l, front[2]>>, n)
  ELSE BoundaryIndicesCommon(loop, n)

\* the coordinates of the boundary indices that have one, in order
BoundaryPoints(boundary_indices, map) ==
  LET present == SelectSeq(boundary_indices, LAMBDA r : map.has_coord[r])
  IN [k \in 1..Len(present) |-> map.coords[present[k]]]

\* mutant of FitPlane: the test points.size() < 3 is left out
FitPlaneAnyCount(points, flat) ==
  [valid |-> ~flat, c |-> IF flat THEN "origin" ELSE "xyz"]

\* geometry3d.cpp: FitPlane; `flat` says that the eigenvalue tests reject the
\* points.  For finite points they do so for any three points (their
\* covariance has a zero eigenvalue); with a non-finite point the comparisons
\* are made on NaN and the centroid of an accepted plane is not finite.
FitPlane(points, flat) ==
  LET finite == \A k \in 1..Len(points) : IsFiniteCoord(points[k])
      valid == /\ ~(Len(points) < 3)
               /\ IF finite THEN ~(Len(points) = 3 \/ flat) ELSE ~flat
  IN [valid |-> valid,
      c |-> IF ~valid THEN "origin" ELSE IF finite THEN "xyz" ELSE "nan"]

\* geometry2d.cpp: ProjectPolygon; `hull_ok` says that the convex hull of
\* the projected points keeps three vertices, which it does when the
\* projections are NaN (no vertex is ever popped)
ProjectPolygon(points, plane, hull_ok) ==
  [valid |-> plane.valid /\ ~(Len(points) < 3) /\ (hull_ok \/ plane.c = "nan")]

\* the polygon of the kTrianglePlanes mode of surface_builder.cpp
TrianglePolygon(points, plane) ==
  [valid |-> plane.valid /\ Len(points) >= 3]

\* surface_builder.cpp: BuildSurfaces; fit[k] = [flat, hull_ok] is the shape
\* of the boundary points of the k-th loop
BuildSurfaces(crds, loops_in, sopts, fit) ==
  Bind(BuildCoordMap(crds, sopts.atom_index), LAMBDA map :
     [k \in 1..Len(loops_in) |->
        LET loop == loops_in[k]
            boundary_points == BoundaryPoints(BuildBoundaryIndices(loop, map.n_res), map)
            plane == FitPlane(boundary_points, fit[k].flat)
        IN [loop_id |-> loop.id,
            kind |-> loop.kind,
            closing_pairs |-> loop.closing_pairs,
            skip_residues |-> BuildSkipResidues(loop),
            plane |-> plane,
            polygon |-> IF sopts.surface_mode = "kBestFitPlane"
                          THEN ProjectPolygon(boundary_points, plane, fit[k].hull_ok)
                        ELSE TrianglePolygon(boundary_points, plane)]])

\* entanglement.cpp: BuildSurfaces (closing_pairs is left empty, the mode is not read)
BuildSurfacesMono(crds, loops_in, sopts, fit) ==
  Bind(BuildCoordMapMono(crds, sopts.atom_index), LAMBDA map :
     [k \in 1..Len(loops_in) |->
        LET loop == loops_in[k]
            boundary_points == BoundaryPoints(BoundaryIndicesMono(loop, map.n_res), map)
            plane == FitPlane(boundary_points, fit[k].flat)
        IN [loop_id |-> loop.id,
            kind |-> loop.kind,
            closing_pairs |-> <<>>,
            skip_residues |-> BuildSkipResiduesMono(loop),
            plane |-> plane,
            polygon |-> ProjectPolygon(boundary_points, plane, fit[k].hull_ok)]])

\* the two definitions of rna::BuildSurfaces; a build links one of them
SurfaceBuilders == {"surface_builder.cpp", "entanglement.cpp"}

LinkedBuildSurfaces(unit, crds, loops_in, sopts, fit) ==
  IF unit = "surface_builder.cpp" THEN BuildSurfaces(crds, loops_in, sopts, fit)
  ELSE BuildSurfacesMono(crds, loops_in, sopts, fit)

LinkedBoundaryIndices(unit, loop, n) ==
  IF unit = "surface_builder.cpp" THEN BuildBoundaryIndices(loop, n)
  ELSE BoundaryIndicesMono(loop, n)

(***************************************************************************)
(* The inputs the calls are made with.                                     *)
(***************************************************************************)
\* every pair record over the residues lo..hi, self-pairs and both orders included
AnyPairs(lo, hi) == {BasePair(i, j, t) : i \in lo..hi, j \in lo..hi, t \in BasePairTypes}

\* arbitrary short lists: duplicates, shared residues, self-pairs, (j,i) order
ArbitraryLists(lo, hi) == SeqsUpTo(AnyPairs(lo, hi), SmallPairs)

NormPairs(n) == {<<i, j>> \in (1..n) \X (1..n) : i < j}

PairLess(p, q) == p[1] < q[1] \/ (p[1] = q[1] /\ p[2] < q[2])

\* lists of distinct pairs i < j in increasing order: one list per set of pairs
PairSetLists(n) ==
  {[k \in 1..Len(s) |-> BasePair(s[k][1], s[k][2], "kCanonical")] :
     s \in {s \in SeqsUpTo(NormPairs(n), MaxPairs) :
              \A k \in 1..(Len(s) - 1) : PairLess(s[k], s[k + 1])}}

\* scenario S3 of the specification: two crossing pairs
S3 == <<BasePair(1, 5, "kCanonical"), BasePair(3, 7, "kCanonical")>>

LayerInputs == ArbitraryLists(1, SmallRes) \cup PairSetLists(MaxRes) \cup {S3}

\* lists of pairs i < j over 1..n, no residue twice (crossings allowed), in
\* increasing order: one list per valid structure
StructureLists(n) ==
  {bps \in PairSetLists(n) :
     \A k, m \in 1..Len(bps) :
       k # m => {bps[k].i, bps[k].j} \cap {bps[m].i, bps[m].j} = {}}

\* the pair records the binding makes of a list of int pairs (all kCanonical)
\* over 0..SmallRes, where 0 and SmallRes are out of the range 1..SmallRes-1
MalformedLists ==
  SeqsUpTo({BasePair(i, j, "kCanonical") : i \in 0..SmallRes, j \in 0..SmallRes}, SmallPairs)

\* the structures with every pair given as (j, i) and the list back to front
FlippedLists(n) ==
  {[k \in 1..Len(b) |-> BasePair(b[Len(b) - k + 1].j, b[Len(b) - k + 1].i, "kNonCanonical")] :
     b \in StructureLists(n)}

\* [bps, n]
PairMapInputs ==
  {[bps |-> b, n |-> n] : b \in MalformedLists, n \in {0, SmallRes - 1}}
    \cup {[bps |-> b, n |-> MaxRes] : b \in StructureLists(MaxRes) \cup FlippedLists(MaxRes)}

LoopOptions == [main_layer_only : BOOLEAN, include_multi : BOOLEAN]

\* scenario S4 of the specification
S4 == [bps |-> <<BasePair(1, 20, "kCanonical"), BasePair(3, 8, "kCanonical"),
                 BasePair(10, 15, "kCanonical")>>,
       n |-> 20]

\* scenario S1 of the specification
S1 == [bps |-> <<BasePair(1, 8, "kCanonical")>>, n |-> 8]

\* [bps, n]
LoopInputs ==
  {[bps |-> b, n |-> n] : b \in MalformedLists, n \in {0, SmallRes - 1}}
    \cup {[bps |-> b, n |-> MaxRes] : b \in StructureLists(MaxRes)}
    \cup {S1, S4}

\* a residue record whose atom list holds one point, or none
ResidueCoord(r, has_atom) ==
  [res_index |-> r, atoms |-> IF has_atom THEN <<"xyz">> ELSE <<>>]

\* residues 1..n in order, all with an atom but at most one
CoordLists(n_max) ==
  {[r \in 1..n |-> ResidueCoord(r, r # missing)] : n \in 1..n_max, missing \in 0..n_max}

\* the atom lists of a record: no atom, a finite one, one with a NaN
\* component, a NaN one followed by a finite one
AtomLists == {<<>>, <<"xyz">>, <<"nan">>, <<"nan", "xyz">>}

\* the atom indices a caller passes: a negative one, the first atom, the second atom
AtomIndices == {-1, 0, 1}

\* records in any order, res_index from -1 on, no res_index twice
CoordRecordLists ==
  {crds \in SeqsUpTo([res_index : (-1)..CoordRecs, atoms : AtomLists], CoordRecs) :
     \A k, m \in 1..Len(crds) : k # m => crds[k].res_index # crds[m].res_index}

\* lists that are not the residues 1..n in order: a residue without a record,
\* records out of order, an atom with a NaN component, a single record with
\* res_index 2, a record with res_index 0
SparseCoordLists ==
  {<<[res_index |-> 1, atoms |-> <<"xyz">>], [res_index |-> 3, atoms |-> <<"xyz">>]>>,
   <<[res_index |-> 3, atoms |-> <<"xyz">>], [res_index |-> 1, atoms |-> <<"xyz">>],
     [res_index |-> 2, atoms |-> <<"xyz">>]>>,
   <<[res_index |-> 1, atoms |-> <<"nan">>], [res_index |-> 2, atoms |-> <<"xyz">>],
     [res_index |-> 3, atoms |-> <<"xyz">>]>>,
   <<[res_index |-> 2, atoms |-> <<"xyz">>]>>,
   <<[res_index |-> 0, atoms |-> <<"xyz">>], [res_index |-> 1, atoms |-> <<"xyz">>]>>}

\* residues 1..n in order, each with no atom, a P atom, a NaN P atom, or a P
\* and a C4 atom
PolylineCoordLists ==
  UNION {[1..n -> AtomLists \cup {<<"xyz", "xyz">>}] : n \in 1..EvalRes}

Plane(valid) == [valid |-> valid, c |-> IF valid THEN "xyz" ELSE "origin"]

Polygon2D(valid) == [valid |-> valid]

Surface(id, kind, closing, plane_valid, polygon_valid, skip) ==
  [loop_id |-> id, kind |-> kind, closing_pairs |-> closing,
   plane |-> Plane(plane_valid), polygon |-> Polygon2D(polygon_valid),
   skip_residues |-> skip]

\* the surface of the hairpin (a, b), with the skip list the surface builder gives it
HairpinSurface(id, a, b) ==
  LET loop == [id |-> id, kind |-> "kHairpin",
               closing_pairs |-> <<BasePair(a, b, "kUnclassified")>>,
               boundary_residues |-> Interval(a + 1, b - 1)]
  IN Surface(id, "kHairpin", loop.closing_pairs, TRUE, TRUE, BuildSkipResidues(loop))

\* surfaces a caller may pass: invalid ones, a valid one that skips nothing,
\* hairpin surfaces; any loop id
SurfaceChoices(n) ==
  UNION {
    {Surface(id, "kUnknown", <<>>, FALSE, FALSE, <<>>),
     Surface(id, "kUnknown", <<>>, TRUE, FALSE, <<>>),
     Surface(id, "kUnknown", <<>>, FALSE, TRUE, <<>>),
     Surface(id, "kUnknown", <<>>, TRUE, TRUE, <<>>)}
      \cup {HairpinSurface(id, ab[1], ab[2]) : ab \in {p \in (1..n) \X (1..n) : p[1] < p[2]}}
    : id \in LoopIds}

\* the pairs (k, i) that have a geometry at all: the plane and the polygon of
\* surface k are valid (SegmentPlaneIntersection and PointInPolygon2D return
\* false otherwise), both ends of the segment (i, i+1) have coordinates, and
\* the plane and the two ends are finite (PointInPolygon2D accepts no NaN point)
Geometric(crds, srfs, atom_index) ==
  LET map == BuildCoordMapMono(crds, atom_index)
  IN {<<k, i>> \in (1..Len(srfs)) \X (1..(map.n_res - 1)) :
        /\ srfs[k].plane.valid /\ srfs[k].polygon.valid
        /\ map.has_coord[i] /\ map.has_coord[i + 1]
        /\ IsFiniteCoord(srfs[k].plane.c)
        /\ IsFiniteCoord(map.coords[i]) /\ IsFiniteCoord(map.coords[i + 1])}

\* the geometries in which at most MaxPierced segment-surface pairs pierce
Geometries(crds, srfs, atom_index) ==
  {g \in SUBSET Geometric(crds, srfs, atom_index) : Cardinality(g) <= MaxPierced}

\* the structures without crossing pairs
NestedLists(n) ==
  {bps \in StructureLists(n) :
     \A k, m \in 1..Len(bps) :
       ~(bps[k].i < bps[m].i /\ bps[m].i < bps[k].j /\ bps[k].j < bps[m].j)}

\* coordinates for the residues 1..n, all with a finite atom but at most one,
\* which has no atom or an atom with a NaN component
CoordListsFor(n) ==
  {[r \in 1..n |-> [res_index |-> r, atoms |-> IF r = odd THEN atoms ELSE <<"xyz">>]] :
     odd \in 1..n, atoms \in {<<"xyz">>, <<>>, <<"nan">>}}

\* coordinates for the residues 1..n-2 only: the coordinate table is shorter
\* than the structure
ShortCoordList(n) == [r \in 1..(n - 2) |-> [res_index |-> r, atoms |-> <<"xyz">>]]

SurfaceModes == {"kBestFitPlane", "kTrianglePlanes"}

SurfaceBuildOptions == [atom_index : {0}, surface_mode : SurfaceModes]

\* the shapes the boundary points of m loops can have
Fits(m) == [1..m -> [flat : BOOLEAN, hull_ok : BOOLEAN]]

(***************************************************************************)
(* geometry3d.cpp: SegmentPlaneIntersection, on the signed distances       *)
(* d_a = Dot(Sub(a, plane.c), plane.n_hat) and d_b of the two ends.        *)
(* A double is [nan, v]: not-a-number or the value v, in units of 5e-3.    *)
(***************************************************************************)
Finite(v) == [nan |-> FALSE, v |-> v]

NaN == [nan |-> TRUE, v |-> 0]

\* x > y, x < y, x <= y on doubles: false when an operand is NaN
FGt(x, y) == ~x.nan /\ ~y.nan /\ x.v > y.v

FLt(x, y) == ~x.nan /\ ~y.nan /\ x.v < y.v

FLe(x, y) == ~x.nan /\ ~y.nan /\ x.v <= y.v

FMul(x, y) == IF x.nan \/ y.nan THEN NaN ELSE Finite(x.v * y.v)

FSub(x, y) == IF x.nan \/ y.nan THEN NaN ELSE Finite(x.v - y.v)

\* std::abs
FAbs(x) == IF x.nan THEN NaN ELSE Finite(IF x.v < 0 THEN 0 - x.v ELSE x.v)

\* t = d_a / denom for denom # 0, kept as the fraction num/den with den > 0
FDiv(x, y) ==
  IF x.nan \/ y.nan THEN [nan |-> TRUE, num |-> 0, den |-> 1]
  ELSE IF y.v < 0 THEN [nan |-> FALSE, num |-> 0 - x.v, den |-> 0 - y.v]
  ELSE [nan |-> FALSE, num |-> x.v, den |-> y.v]

\* std::abs(d_a) < eps_plane || std::abs(d_b) < eps_plane
NearPlane(d_a, d_b, eps_plane) == FLt(FAbs(d_a), eps_plane) \/ FLt(FAbs(d_b), eps_plane)

\* the return value; the intersection point is written only when it is true
SegmentPlaneIntersection(d_a, d_b, plane_valid, eps_plane) ==
  IF ~plane_valid THEN FALSE
  ELSE IF FGt(FMul(d_a, d_b), Finite(0)) THEN FALSE
  ELSE IF NearPlane(d_a, d_b, eps_plane) THEN FALSE
  ELSE LET denom == FSub(d_a, d_b)
       IN IF FLe(FAbs(denom), Finite(0)) THEN FALSE
          ELSE LET t == FDiv(d_a, denom)
               IN IF ~t.nan /\ (t.num <= 0 \/ t.num >= t.den) THEN FALSE
                  ELSE TRUE

\* geometry2d.cpp: PointInPolygon2D on the projection q of the intersection
\* point a + (b - a) * t; in_poly is the verdict for a finite q, and no
\* comparison on a NaN q is true
PointInPolygon2D(d_a, d_b, in_poly) == ~d_a.nan /\ ~d_b.nan /\ in_poly

\* entanglement.cpp: the test of one segment against one surface in
\* EvaluateEntanglement; TRUE iff the hit is offered to hit_keys
SegmentTest(d_a, d_b, plane_valid, eps_plane, in_poly) ==
  IF ~SegmentPlaneIntersection(d_a, d_b, plane_valid, eps_plane) THEN FALSE
  ELSE IF ~PointInPolygon2D(d_a, d_b, in_poly) THEN FALSE
  ELSE TRUE

\* EvaluateOptions.eps_plane = 1e-2
DefaultEpsPlane == 2

\* the distances the calls are made with: 0, 5e-3, 1e-2, 3e-2 on both sides, NaN
Distances == {Finite(v) : v \in {-6, -2, -1, 0, 1, 2, 6}} \cup {NaN}

EpsPlanes == {Finite(0), Finite(DefaultEpsPlane)}

NoCrossingTest ==
  [d_a |-> Finite(0), d_b |-> Finite(0), eps_plane |-> Finite(0), plane_valid |-> FALSE,
   in_poly |-> FALSE, crossing |-> FALSE, hit |-> FALSE]

(***************************************************************************)
(* geometry2d.cpp: ConvexHull.  A point is <<x, y>>.  A grid point stands  *)
(* for a double next to it, so three points on a line of the grid stand    *)
(* for three nearly collinear doubles, and the sign Cross2D computes for   *)
(* them is the outcome of its rounding: rnd[a] is the sign computed for    *)
(* (a, b, c) with b before c in the sort order.                            *)
(***************************************************************************)
\* the comparator of std::sort: by x, then by y
PointLess(a, b) == IF a[1] = b[1] THEN a[2] < b[2] ELSE a[1] < b[1]

\* the sign of abx * acy - aby * acx as the doubles give it: the two products
\* cancel exactly when two of the points are equal, and swapping b and c
\* negates the value exactly
Cross2D(a, b, c, rnd) ==
  LET exact == (b[1] - a[1]) * (c[2] - a[2]) - (b[2] - a[2]) * (c[1] - a[1])
  IN IF a = b \/ a = c \/ b = c THEN 0
     ELSE IF exact > 0 THEN 1
     ELSE IF exact < 0 THEN -1
     ELSE IF PointLess(b, c) THEN rnd[a] ELSE 0 - rnd[a]

RECURSIVE SortPoints(_)
\* std::sort(points.begin(), points.end(), ...)
SortPoints(points) ==
  IF points = <<>> THEN <<>>
  ELSE LET least == CHOOSE k \in 1..Len(points) :
                      \A m \in 1..Len(points) : ~PointLess(points[m], points[k])
       IN <<points[least]>>
            \o SortPoints([m \in 1..(Len(points) - 1) |->
                             IF m < least THEN points[m] ELSE points[m + 1]])

\* Cross2D(hull[n - 2], hull[n - 1], p) <= 0.0
TurnsBack(a, b, p, rnd) == Cross2D(a, b, p, rnd) <= 0

RECURSIVE PopWhile(_, _, _, _)
\* while (hull.size() > floor) { if (Cross2D(...) <= 0.0) pop_back(); else break; }
PopWhile(hull, p, floor, rnd) ==
  IF Len(hull) > floor /\ TurnsBack(hull[Len(hull) - 1], hull[Len(hull)], p, rnd)
    THEN PopWhile(SubSeq(hull, 1, Len(hull) - 1), p, floor, rnd)
  ELSE hull

RECURSIVE HullPass(_, _, _, _, _)
\* one of the two for loops: the points ps in turn, from the k-th on
HullPass(hull, ps, k, floor, rnd) ==
  IF k > Len(ps) THEN hull
  ELSE HullPass(Append(PopWhile(hull, ps[k], floor, rnd), ps[k]), ps, k + 1, floor, rnd)

\* ConvexHull(points): fewer than 3 points are returned as they are; the
\* first loop pops while hull.size() >= 2, the second, over the points from
\* the last to the first, while hull.size() > lower_size; the last vertex
\* pushed is popped at the end
ConvexHull(points, rnd) ==
  IF Len(points) < 3 THEN points
  ELSE LET sorted == SortPoints(points)
           lower == HullPass(<<>>, sorted, 1, 1, rnd)
           backwards == [k \in 1..Len(sorted) |-> sorted[Len(sorted) - k + 1]]
           hull == HullPass(lower, backwards, 1, Len(lower), rnd)
       IN IF hull # <<>> THEN SubSeq(hull, 1, Len(hull) - 1) ELSE hull

Grid == (0..GridMax) \X (0..GridMax)

\* a, b, c are on one line of the grid
Collinear(a, b, c) ==
  (b[1] - a[1]) * (c[2] - a[2]) - (b[2] - a[2]) * (c[1] - a[1]) = 0

\* lists of 3 to HullPoints distinct points, one list per set of points in
\* the order of the comparator reversed (std::sort makes the order irrelevant)
PointLists ==
  {pts \in UNION {[1..n -> Grid] : n \in 3..HullPoints} :
     \A k \in 1..(Len(pts) - 1) : PointLess(pts[k + 1], pts[k])}

\* the roundings of Cross2D for the points: exact when no three of them are
\* on a line
Roundings(pts) ==
  IF \E k, m, q \in 1..Len(pts) : k < m /\ m < q /\ Collinear(pts[k], pts[m], pts[q])
    THEN [Range(pts) -> {-1, 0, 1}]
  ELSE {[a \in Range(pts) |-> 0]}

NoHull == [points |-> <<>>, rnd |-> <<>>, hull |-> <<>>, hull_of_hull |-> <<>>]

(***************************************************************************)
(* The calls.                                                              *)
(***************************************************************************)
Init ==
  /\ pc = "idle"
  /\ base_pairs = <<>>
  /\ n_res = 0
  /\ options = [main_layer_only |-> FALSE, include_multi |-> FALSE]
  /\ layer = <<>>
  /\ loops = <<>>
  /\ error = NoError
  /\ coords = <<>>
  /\ surfaces = <<>>
  /\ geom = {}
  /\ result = [K |-> 0, hits |-> <<>>]
  /\ surface_options = [atom_index |-> 0, surface_mode |-> "kTrianglePlanes"]
  /\ linked = "surface_builder.cpp"
  /\ pair_map_out = <<>>
  /\ coord_map_out = [n_res |-> 0, coords |-> <<>>, has_coord |-> <<>>]
  /\ segments_out = <<>>
  /\ crossing_out = NoCrossingTest
  /\ hull_out = NoHull
  /\ trace_out = NoTrace
  /\ loops_multi = <<>>

\* ExtractMainLayer(base_pairs)
CallExtractMainLayer ==
  /\ pc = "idle"
  /\ \E bps \in LayerInputs :
       LET r == ExtractMainLayer(bps)
       IN /\ base_pairs' = bps
          /\ layer' = r.value
          /\ error' = r.error
          /\ trace_out' = TraceOf(bps)
  /\ pc' = "ExtractMainLayer"
  /\ UNCHANGED <<n_res, options, loops, coords, surfaces, geom, result, surface_options, linked, pair_map_out, coord_map_out, segments_out, crossing_out, hull_out, loops_multi>>

\* BuildLoops(base_pairs, n_res, options)
CallBuildLoops ==
  /\ pc = "idle"
  /\ \E inp \in LoopInputs, opts \in LoopOptions :
       LET r == BuildLoops(inp.bps, inp.n, opts)
       IN /\ base_pairs' = inp.bps
          /\ n_res' = inp.n
          /\ options' = opts
          /\ loops' = r.value
          /\ error' = r.error
  /\ pc' = "BuildLoops"
  /\ UNCHANGED <<layer, coords, surfaces, geom, result, surface_options, linked, pair_map_out, coord_map_out, segments_out, crossing_out, hull_out, trace_out, loops_multi>>

\* ExtractMainLayer(layer): the extractor called again on what it returned
CallExtractMainLayerAgain ==
  /\ pc = "ExtractMainLayer"
  /\ error = NoError
  /\ LET r == ExtractMainLayer(layer)
     IN /\ base_pairs' = layer
        /\ layer' = r.value
        /\ error' = r.error
        /\ trace_out' = TraceOf(layer)
  /\ pc' = "ExtractMainLayer.again"
  /\ UNCHANGED <<n_res, options, loops, coords, surfaces, geom, result, surface_options, linked,
                 pair_map_out, coord_map_out, segments_out, crossing_out, hull_out, loops_multi>>

\* BuildPairMap(base_pairs, n_res)
CallBuildPairMap ==
  /\ pc = "idle"
  /\ \E inp \in PairMapInputs :
       LET r == BuildPairMap(inp.bps, inp.n)
       IN /\ base_pairs' = inp.bps
          /\ n_res' = inp.n
          /\ pair_map_out' = IF r.error = NoError THEN r.map ELSE <<>>
          /\ error' = r.error
  /\ pc' = "BuildPairMap"
  /\ UNCHANGED <<options, layer, loops, coords, surfaces, geom, result, surface_options, linked,
                 coord_map_out, segments_out, crossing_out, hull_out, trace_out, loops_multi>>

\* BuildCoordMap(coords, atom_index) of coord_utils.h
CallBuildCoordMap ==
  /\ pc = "idle"
  /\ \E crds \in CoordRecordLists, atom_index \in AtomIndices :
       /\ coords' = crds
       /\ surface_options' = [surface_options EXCEPT !.atom_index = atom_index]
       /\ coord_map_out' = BuildCoordMap(crds, atom_index)
  /\ pc' = "BuildCoordMap"
  /\ UNCHANGED <<base_pairs, n_res, options, layer, loops, error, surfaces, geom, result, linked,
                 pair_map_out, segments_out, crossing_out, hull_out, trace_out, loops_multi>>

\* BuildCoordMap(coords, atom_index) of entanglement.cpp
CallBuildCoordMapMono ==
  /\ pc = "idle"
  /\ \E crds \in CoordRecordLists, atom_index \in AtomIndices :
       /\ coords' = crds
       /\ surface_options' = [surface_options EXCEPT !.atom_index = atom_index]
       /\ coord_map_out' = BuildCoordMapMono(crds, atom_index)
  /\ pc' = "entanglement.cpp:BuildCoordMap"
  /\ UNCHANGED <<base_pairs, n_res, options, layer, loops, error, surfaces, geom, result, linked,
                 pair_map_out, segments_out, crossing_out, hull_out, trace_out, loops_multi>>

\* BuildSegmentsFromPolyline(BuildPolylinePoints(coords, atom_index_p = 0, atom_index_c4 = 1))
CallBuildSegmentsFromPolyline ==
  /\ pc = "idle"
  /\ \E atoms \in PolylineCoordLists :
       LET crds == [r \in 1..Len(atoms) |-> [res_index |-> r, atoms |-> atoms[r]]]
       IN /\ coords' = crds
          /\ segments_out' = BuildSegmentsFromPolyline(BuildPolylinePoints(crds, 0, 1))
  /\ pc' = "BuildSegmentsFromPolyline"
  /\ UNCHANGED <<base_pairs, n_res, options, layer, loops, error, surfaces, geom, result,
                 surface_options, linked, pair_map_out, coord_map_out, crossing_out, hull_out, trace_out, loops_multi>>

\* after BuildLoops without include_multi: BuildLoops(base_pairs, n_res,
\* options with include_multi = true)
CallBuildLoopsIncludeMulti ==
  /\ pc = "BuildLoops"
  /\ error = NoError
  /\ ~options.include_multi
  /\ LET r == BuildLoops(base_pairs, n_res, [options EXCEPT !.include_multi = TRUE])
     IN /\ loops_multi' = r.value
        /\ error' = r.error
  /\ pc' = "BuildLoops.include_multi"
  /\ UNCHANGED <<base_pairs, n_res, options, layer, loops, coords, surfaces, geom, result,
                 surface_options, linked, pair_map_out, coord_map_out, segments_out,
                 crossing_out, hull_out, trace_out>>

\* hull = ConvexHull(points), then ConvexHull(hull)
CallConvexHull ==
  /\ pc = "idle"
  /\ \E pts \in PointLists :
       \E rnd \in Roundings(pts) :
         LET hull == ConvexHull(pts, rnd)
         IN hull_out' = [points |-> pts, rnd |-> rnd, hull |-> hull,
                         hull_of_hull |-> ConvexHull(hull, rnd)]
  /\ pc' = "ConvexHull"
  /\ UNCHANGED <<base_pairs, n_res, options, layer, loops, error, coords, surfaces, geom,
                 result, surface_options, linked, pair_map_out, coord_map_out, segments_out,
                 crossing_out, trace_out, loops_multi>>

\* SegmentPlaneIntersection(a, b, plane, eps_plane, &intersection) and the
\* rest of the segment test of EvaluateEntanglement
CallSegmentPlaneIntersection ==
  /\ pc = "idle"
  /\ \E d_a \in Distances, d_b \in Distances, eps_plane \in EpsPlanes,
        plane_valid \in BOOLEAN, in_poly \in BOOLEAN :
       crossing_out' =
         [d_a |-> d_a, d_b |-> d_b, eps_plane |-> eps_plane, plane_valid |-> plane_valid,
          in_poly |-> in_poly,
          crossing |-> SegmentPlaneIntersection(d_a, d_b, plane_valid, eps_plane),
          hit |-> SegmentTest(d_a, d_b, plane_valid, eps_plane, in_poly)]
  /\ pc' = "SegmentPlaneIntersection"
  /\ UNCHANGED <<base_pairs, n_res, options, layer, loops, error, coords, surfaces, geom,
                 result, surface_options, linked, pair_map_out, coord_map_out, segments_out,
                 hull_out, trace_out, loops_multi>>

\* EvaluateEntanglement(coords, surfaces, {atom_index = 0})
CallEvaluateEntanglement ==
  /\ pc = "idle"
  /\ \E crds \in CoordLists(EvalRes) \cup SparseCoordLists :
       \E srfs \in SeqsUpTo(SurfaceChoices(Len(crds)), MaxSurfaces) :
         \E g \in Geometries(crds, srfs, 0) :
           /\ coords' = crds
           /\ surfaces' = srfs
           /\ geom' = g
           /\ result' = EvaluateEntanglement(crds, srfs, 0, g)
           /\ segments_out' = EvalSegments(crds, 0)
  /\ pc' = "EvaluateEntanglement"
  /\ UNCHANGED <<base_pairs, n_res, options, layer, loops, error, surface_options, linked,
                 pair_map_out, coord_map_out, crossing_out, hull_out, trace_out, loops_multi>>

\* loops = BuildLoops(base_pairs, n_res, options) on a structure without crossings
PipelineBuildLoops ==
  /\ pc = "idle"
  /\ \E bps \in NestedLists(PipeRes), include_multi \in BOOLEAN :
       LET opts == [main_layer_only |-> FALSE, include_multi |-> include_multi]
           r == BuildLoops(bps, PipeRes, opts)
       IN /\ base_pairs' = bps
          /\ n_res' = PipeRes
          /\ options' = opts
          /\ loops' = r.value
          /\ error' = r.error
  /\ pc' = "Pipeline.BuildLoops"
  /\ UNCHANGED <<layer, coords, surfaces, geom, result, surface_options, linked, pair_map_out, coord_map_out, segments_out, crossing_out, hull_out, trace_out, loops_multi>>

\* surfaces = BuildSurfaces(coords, loops, surface_options)
PipelineBuildSurfaces ==
  /\ pc = "Pipeline.BuildLoops"
  /\ error = NoError
  /\ \E crds \in CoordListsFor(n_res) \cup {ShortCoordList(n_res)}, sopts \in SurfaceBuildOptions,
        unit \in SurfaceBuilders, fit \in Fits(Len(loops)) :
       /\ coords' = crds
       /\ surface_options' = sopts
       /\ linked' = unit
       /\ surfaces' = LinkedBuildSurfaces(unit, crds, loops, sopts, fit)
  /\ pc' = "Pipeline.BuildSurfaces"
  /\ UNCHANGED <<base_pairs, n_res, options, layer, loops, error, geom, result, pair_map_out, coord_map_out, segments_out, crossing_out, hull_out, trace_out, loops_multi>>

\* result = EvaluateEntanglement(coords, surfaces, {atom_index = 0})
PipelineEvaluate ==
  /\ pc = "Pipeline.BuildSurfaces"
  /\ \E g \in Geometries(coords, surfaces, surface_options.atom_index) :
       /\ geom' = g
       /\ result' = EvaluateEntanglement(coords, surfaces, surface_options.atom_index, g)
       /\ segments_out' = EvalSegments(coords, surface_options.atom_index)
  /\ pc' = "Pipeline.EvaluateEntanglement"
  /\ UNCHANGED <<base_pairs, n_res, options, layer, loops, error, coords, surfaces,
                 surface_options, linked, pair_map_out, coord_map_out, crossing_out, hull_out, trace_out, loops_multi>>

Pipeline == PipelineBuildLoops \/ PipelineBuildSurfaces \/ PipelineEvaluate

Next ==
  \/ CallExtractMainLayer
  \/ CallExtractMainLayerAgain
  \/ CallBuildPairMap
  \/ CallBuildLoops
  \/ CallBuildLoopsIncludeMulti
  \/ CallBuildCoordMap
  \/ CallBuildCoordMapMono
  \/ CallBuildSegmentsFromPolyline
  \/ CallSegmentPlaneIntersection
  \/ CallConvexHull
  \/ CallEvaluateEntanglement
  \/ Pipeline

Spec == Init /\ [][Next]_vars

SpecLayer == Init /\ [][CallExtractMainLayer \/ CallExtractMainLayerAgain]_vars

SpecLayerLoops ==
  Init /\ [][CallExtractMainLayer \/ CallExtractMainLayerAgain \/ CallBuildLoops]_vars

SpecPairMap == Init /\ [][CallBuildPairMap]_vars

SpecLoops == Init /\ [][CallBuildLoops]_vars

SpecLoopsMulti == Init /\ [][CallBuildLoops \/ CallBuildLoopsIncludeMulti]_vars

SpecCoordMap == Init /\ [][CallBuildCoordMap \/ CallBuildCoordMapMono]_vars

SpecSegments == Init /\ [][CallBuildSegmentsFromPolyline \/ CallEvaluateEntanglement]_vars

SpecHull == Init /\ [][CallConvexHull]_vars

SpecCrossing == Init /\ [][CallSegmentPlaneIntersection]_vars

SpecEval == Init /\ [][CallEvaluateEntanglement]_vars

SpecPipeline == Init /\ [][Pipeline]_vars

(***************************************************************************)
(* Claims about the main-layer extractor.                                  *)
(***************************************************************************)
\* (a,b) and (c,d), a < b and c < d, cross iff a<c<b<d or c<a<d<b
Crosses(p, q) ==
  \/ (p[1] < q[1] /\ q[1] < p[2] /\ p[2] < q[2])
  \/ (q[1] < p[1] /\ p[1] < q[2] /\ q[2] < p[2])

LayerReturned == pc = "ExtractMainLayer" /\ error = NoError

\* C1: whatever the input list (crossing pairs, duplicate pairs, pairs sharing
\* a residue), no two pairs of the list ExtractMainLayer returns cross.
C1_LayerNonCrossing ==
  LayerReturned =>
    \A k, m \in 1..Len(layer) : ~Crosses(SortedPair(layer[k]), SortedPair(layer[m]))

\* C1 witness: the input held two crossing pairs and two pairs were returned
C1_Witness ==
  /\ LayerReturned
  /\ \E k, m \in 1..Len(base_pairs) :
       Crosses(SortedPair(base_pairs[k]), SortedPair(base_pairs[m]))
  /\ Len(layer) >= 2

\* the sub-lists of the input (sets of positions) in which no two pairs cross
NonCrossingSubsets(bps) ==
  {Q \in SUBSET (1..Len(bps)) :
     \A k, m \in Q : ~Crosses(SortedPair(bps[k]), SortedPair(bps[m]))}

SharesResidue(p, q) == {p[1], p[2]} \cap {q[1], q[2]} # {}

\* ... and in which, moreover, no residue occurs in two pairs
MatchingSubsets(bps) ==
  {Q \in NonCrossingSubsets(bps) :
     \A k, m \in Q : k # m => ~SharesResidue(SortedPair(bps[k]), SortedPair(bps[m]))}

\* C2 as stated: the layer is at least as large as every sub-list of the input
\* in which no two pairs cross.
C2_MaximalOverNonCrossing ==
  LayerReturned => \A Q \in NonCrossingSubsets(base_pairs) : Len(layer) >= Cardinality(Q)

\* C2 amended: the layer is at least as large as every sub-list of the input in
\* which no two pairs cross and no residue occurs in two pairs.
C2_MaximalOverMatchings ==
  LayerReturned => \A Q \in MatchingSubsets(base_pairs) : Len(layer) >= Cardinality(Q)

\* C2 witness: three input pairs, two of them crossing, and a layer of two pairs
\* that is as large as the largest non-crossing matching of the input
C2_Witness ==
  /\ LayerReturned
  /\ Len(base_pairs) = 3
  /\ \E Q \in SUBSET (1..Len(base_pairs)) : Q \notin NonCrossingSubsets(base_pairs)
  /\ \E Q \in MatchingSubsets(base_pairs) : Cardinality(Q) = 2 /\ Len(layer) = 2

LayerReturnedAgain == pc = "ExtractMainLayer.again"

\* the unordered pairs of a list of pair records
UnorderedPairs(bps) == {SortedPair(bps[k]) : k \in 1..Len(bps)}

\* C12: ExtractMainLayer applied to what ExtractMainLayer returned gives the
\* same set of unordered pairs back, without error; and for an input of two
\* crossing pairs, such as (1,5),(3,7), the layer has exactly one pair.
C12_LayerIdempotent ==
  /\ LayerReturnedAgain
       => (error = NoError /\ UnorderedPairs(layer) = UnorderedPairs(base_pairs))
  /\ (LayerReturned /\ Len(base_pairs) = 2
         /\ Crosses(SortedPair(base_pairs[1]), SortedPair(base_pairs[2])))
       => Len(layer) = 1

\* C12 witness: the second call was made on a layer of two pairs
C12_Witness ==
  /\ LayerReturnedAgain
  /\ Len(base_pairs) = 2
  /\ Len(layer) = 2

\* the positions of the input that give the endpoints of the pair record bp
ListedAt(bp) == {m \in 1..Len(base_pairs) : SortedPair(base_pairs[m]) = SortedPair(bp)}

\* C13: every pair ExtractMainLayer returns has the endpoints of an input pair
\* and carries the tag the input gives for these unordered endpoints, also
\* when the input gives them as (j,i) or more than once (the tag of their
\* first listing).
C13_LayerPreservesTag ==
  LayerReturned =>
    \A k \in 1..Len(layer) :
      /\ ListedAt(layer[k]) # {}
      /\ layer[k].bp_type = base_pairs[MinOf(ListedAt(layer[k]))].bp_type
      /\ (\A m, m2 \in ListedAt(layer[k]) : base_pairs[m].bp_type = base_pairs[m2].bp_type)
            => \A m \in ListedAt(layer[k]) : layer[k].bp_type = base_pairs[m].bp_type

\* C13 witness: the input lists one pair twice, first as (j,i), with two
\* different tags, and the pair is returned
C13_Witness ==
  /\ LayerReturned
  /\ Len(base_pairs) = 2
  /\ base_pairs[1].i > base_pairs[1].j
  /\ SortedPair(base_pairs[1]) = SortedPair(base_pairs[2])
  /\ base_pairs[1].bp_type # base_pairs[2].bp_type
  /\ Len(layer) = 1
  /\ layer[1].bp_type = base_pairs[1].bp_type

(***************************************************************************)
(* Claims about BuildLoops.                                                *)
(***************************************************************************)
LoopsCalled == pc = "BuildLoops"

LoopsReturned == pc = "BuildLoops" /\ error = NoError

InputPairSet == {SortedPair(base_pairs[k]) : k \in 1..Len(base_pairs)}

HasSelfPair(bps) == \E k \in 1..Len(bps) : bps[k].i = bps[k].j

HasOutOfRange(bps, n) ==
  \E k \in 1..Len(bps) : bps[k].i <= 0 \/ bps[k].j <= 0 \/ bps[k].i > n \/ bps[k].j > n

\* some residue appears in two pairs of the list
HasMultiplyPaired(bps) ==
  \E k, m \in 1..Len(bps) : k # m /\ {bps[k].i, bps[k].j} \cap {bps[m].i, bps[m].j} # {}

HasCrossing(bps) ==
  \E k, m \in 1..Len(bps) : Crosses(SortedPair(bps[k]), SortedPair(bps[m]))

ValidInput(bps, n) ==
  n > 0 /\ ~HasOutOfRange(bps, n) /\ ~HasSelfPair(bps) /\ ~HasMultiplyPaired(bps)

\* C3 as stated: whatever the options, a call with n_res <= 0, an endpoint out
\* of 1..n_res, a self-paired pair or a residue in two input pairs ends with
\* an error and no loops.
C3_MalformedInputRejected ==
  (LoopsCalled /\ ~ValidInput(base_pairs, n_res)) => (error # NoError /\ loops = <<>>)

\* C4 as stated: without main_layer_only, an otherwise valid input with two
\* crossing pairs ends with an error.
C4_CrossingRejected ==
  (LoopsCalled /\ ~options.main_layer_only /\ ValidInput(base_pairs, n_res)
     /\ HasCrossing(base_pairs)) => error # NoError

\* C4 amended: without main_layer_only crossings are not validated: an otherwise
\* valid input with two crossing pairs ends without error, and with loops whenever
\* include_multi is set.
C4_CrossingNotValidated ==
  (LoopsCalled /\ ~options.main_layer_only /\ ValidInput(base_pairs, n_res)
     /\ HasCrossing(base_pairs))
    => (error = NoError /\ (options.include_multi => Len(loops) = Len(base_pairs)))

\* C4 witness: a valid input with crossing pairs went through and gave loops
C4_Witness ==
  /\ LoopsReturned /\ ~options.main_layer_only
  /\ ValidInput(base_pairs, n_res) /\ HasCrossing(base_pairs)
  /\ Len(loops) >= 2

OuterPair(loop) == SortedPair(loop.closing_pairs[1])

OuterPairs == {OuterPair(loops[k]) : k \in 1..Len(loops)}

\* q lies strictly inside p
Inside(q, p) == p[1] < q[1] /\ q[2] < p[2]

\* the pairs of P inside p that no other pair of P inside p encloses
ImmediateChildren(P, p) ==
  {q \in P : Inside(q, p) /\ ~\E r \in P : Inside(r, p) /\ Inside(q, r)}

\* a set of pairs with distinct left endpoints, as a list by left endpoint
ByLeftEndpoint(C) ==
  LET lefts == SortedSeq({q[1] : q \in C})
  IN [k \in 1..Len(lefts) |-> CHOOSE q \in C : q[1] = lefts[k]]

NonCrossingValid == ValidInput(base_pairs, n_res) /\ ~HasCrossing(base_pairs)

\* C8 as stated: for a valid non-crossing input the outer pairs of the loops
\* are the input pairs, each the outer pair of exactly one loop.
C8_OuterPairsAreInput ==
  (LoopsCalled /\ NonCrossingValid)
    => (error = NoError /\ OuterPairs = InputPairSet
          /\ Len(loops) = Cardinality(InputPairSet))

\* C8 amended: ... the outer pairs of the loops are the input pairs when
\* include_multi is set, and the input pairs with fewer than two immediate child
\* pairs when it is not; each is the outer pair of exactly one loop.
C8_OuterPairsPartition ==
  (LoopsCalled /\ NonCrossingValid)
    => /\ error = NoError
       /\ OuterPairs =
            {p \in InputPairSet :
               options.include_multi
                 \/ Cardinality(ImmediateChildren(InputPairSet, p)) < 2}
       /\ Len(loops) = Cardinality(OuterPairs)

\* C8 witness: a multi loop and its two children, all three returned
C8_Witness ==
  /\ LoopsReturned /\ NonCrossingValid /\ options.include_multi
  /\ Len(loops) = 3
  /\ \E k \in 1..Len(loops) : loops[k].kind = "kMulti"

\* C9: for non-crossing input, each loop's closing pairs are its outer pair
\* followed by exactly the immediate child pairs of the outer pair by increasing
\* left endpoint; the kind is hairpin for 0 children, internal for 1, multi for
\* 2 or more; S4 with include_multi gives loop 1 = multi [(1,20),(3,8),(10,15)].
C9_Classification ==
  (LoopsReturned /\ NonCrossingValid)
    => /\ \A k \in 1..Len(loops) :
            LET children == ImmediateChildren(InputPairSet, OuterPair(loops[k]))
            IN /\ [m \in 1..Len(loops[k].closing_pairs) |->
                     SortedPair(loops[k].closing_pairs[m])]
                    = <<OuterPair(loops[k])>> \o ByLeftEndpoint(children)
               /\ OuterPair(loops[k]) \in InputPairSet
               /\ loops[k].kind =
                    (IF Cardinality(children) = 0 THEN "kHairpin"
                     ELSE IF Cardinality(children) = 1 THEN "kInternal"
                     ELSE "kMulti")
       /\ (base_pairs = S4.bps /\ n_res = S4.n /\ options.include_multi)
            => /\ loops[1].id = 1
               /\ loops[1].kind = "kMulti"
               /\ [m \in 1..Len(loops[1].closing_pairs) |->
                     <<loops[1].closing_pairs[m].i, loops[1].closing_pairs[m].j>>]
                    = <<(<<1, 20>>), (<<3, 8>>), (<<10, 15>>)>>

\* C9 witness: scenario S4 with include_multi returned its three loops
C9_Witness ==
  /\ LoopsReturned /\ base_pairs = S4.bps /\ n_res = S4.n /\ options.include_multi
  /\ Len(loops) = 3

\* C10: for any accepted input and any options the loops are in strictly
\* increasing order of their outer pair's left endpoint and their ids are
\* 1, 2, ..., |loops| in that order.
C10_LoopOrderAndIds ==
  LoopsReturned
    => \A k \in 1..Len(loops) :
         /\ loops[k].id = k
         /\ k < Len(loops) => OuterPair(loops[k])[1] < OuterPair(loops[k + 1])[1]

\* C10 witness: a multi loop was left out (include_multi unset) and two loops
\* were returned
C10_Witness ==
  /\ LoopsReturned /\ ~options.include_multi
  /\ Len(loops) = 2 /\ Len(base_pairs) = 3

(***************************************************************************)
(* BuildPairMap: claim C11                                                 *)
(***************************************************************************)
PairMapCalled == pc = "BuildPairMap"

\* the pairs {i, pair_map_out[i]} with i < pair_map_out[i]
PairsOfMap == {<<i, pair_map_out[i]>> : i \in {r \in 1..n_res : r < pair_map_out[r]}}

\* C11: for a valid pair list (endpoints in 1..n, no self-pair, no residue in
\* two pairs) BuildPairMap returns a map with map[i] = j iff map[j] = i for all
\* residues i, j, and the pairs {i, map[i]} with i < map[i] are exactly the
\* unordered input pairs.
C11_PairMapRoundTrip ==
  (PairMapCalled /\ ValidInput(base_pairs, n_res))
    => /\ error = NoError
       /\ DOMAIN pair_map_out = 0..n_res
       /\ \A i, j \in 1..n_res : (pair_map_out[i] = j) <=> (pair_map_out[j] = i)
       /\ PairsOfMap = InputPairSet

\* C11 witness: a valid list of three pairs, given as (j, i), went through
C11_Witness ==
  /\ PairMapCalled /\ ValidInput(base_pairs, n_res) /\ error = NoError
  /\ Len(base_pairs) = 3
  /\ \E k \in 1..Len(base_pairs) : base_pairs[k].i > base_pairs[k].j
  /\ Cardinality(PairsOfMap) = 3

(***************************************************************************)
(* EvaluateEntanglement: claims C5 and C6                                  *)
(***************************************************************************)
EvalReturned == pc = "EvaluateEntanglement"

HitKeys == {<<result.hits[h].loop_id, result.hits[h].segment_id>> : h \in 1..Len(result.hits)}

\* C5: the hits of a result never repeat a (loop_id, segment_id) pair, even
\* when several surfaces carry one loop_id, and K is the number of hits.
C5_HitsUniqueAndCounted ==
  EvalReturned =>
    /\ \A a, b \in 1..Len(result.hits) :
         a # b => <<result.hits[a].loop_id, result.hits[a].segment_id>>
                    # <<result.hits[b].loop_id, result.hits[b].segment_id>>
    /\ result.K = Len(result.hits)

\* two surfaces with one loop_id are pierced by the same segment, unskipped
C5_Witness ==
  /\ EvalReturned
  /\ \E k1, k2 \in 1..Len(surfaces) : \E i \in 1..EvalRes :
       /\ k1 < k2
       /\ surfaces[k1].loop_id = surfaces[k2].loop_id
       /\ surfaces[k1].skip_residues = <<>> /\ surfaces[k2].skip_residues = <<>>
       /\ <<k1, i>> \in geom /\ <<k2, i>> \in geom
  /\ result.K = 1

\* the segment (i, i+1) has an end in the skip list of the surface
InSkipList(surface, i) ==
  \E m \in 1..Len(surface.skip_residues) : surface.skip_residues[m] \in {i, i + 1}

\* C6 as stated: whenever i or i+1 is in the skip list of a surface S, no hit
\* carries S's loop_id and the segment (i, i+1).
C6_SkippedNeverHit ==
  EvalReturned =>
    \A k \in 1..Len(surfaces) : \A i \in 1..EvalRes :
      InSkipList(surfaces[k], i) => <<surfaces[k].loop_id, i>> \notin HitKeys

\* no other surface of the list carries the loop_id of surfaces[k]
OwnLoopId(k) == \A k2 \in 1..Len(surfaces) : k2 # k => surfaces[k2].loop_id # surfaces[k].loop_id

\* C6: for a surface S whose loop_id no other surface of the list carries,
\* whenever i or i+1 is in S's skip list no hit carries S's loop_id and the
\* segment (i, i+1); for a hairpin (a, b) that is the segments (a, a+1) and (b-1, b).
C6_SkippedNeverHitOwnSurface ==
  EvalReturned =>
    \A k \in 1..Len(surfaces) :
      OwnLoopId(k) =>
        /\ \A i \in 1..EvalRes :
             InSkipList(surfaces[k], i) => <<surfaces[k].loop_id, i>> \notin HitKeys
        /\ surfaces[k].kind = "kHairpin" =>
             LET a == surfaces[k].closing_pairs[1].i
                 b == surfaces[k].closing_pairs[1].j
             IN /\ <<surfaces[k].loop_id, a>> \notin HitKeys
                /\ <<surfaces[k].loop_id, b - 1>> \notin HitKeys

\* a segment that pierces a hairpin surface at one of its skipped links and
\* is recorded for another surface of another loop
C6_Witness ==
  /\ EvalReturned
  /\ \E k, k2 \in 1..Len(surfaces) : \E i \in 1..EvalRes :
       /\ OwnLoopId(k)
       /\ surfaces[k].kind = "kHairpin"
       /\ InSkipList(surfaces[k], i)
       /\ <<k, i>> \in geom
       /\ <<k2, i>> \in geom
       /\ <<surfaces[k2].loop_id, i>> \in HitKeys

(***************************************************************************)
(* BuildLoops, BuildSurfaces, EvaluateEntanglement in a row: claim C7      *)
(***************************************************************************)
PipelineDone == pc = "Pipeline.EvaluateEntanglement"

\* C7: after BuildLoops, BuildSurfaces and EvaluateEntanglement on a
\* structure without crossings, for every loop of every kind no hit carries
\* the loop's id and a segment whose two ends are both in the boundary index
\* list the loop's surface was built from.
C7_NoHitOnOwnBoundary ==
  PipelineDone =>
    \A k \in 1..Len(loops) :
      LET boundary == Range(LinkedBoundaryIndices(linked, loops[k], n_res))
      IN \A i \in 1..(n_res - 1) :
           (i \in boundary /\ i + 1 \in boundary) => <<loops[k].id, i>> \notin HitKeys

(***************************************************************************)
(* EvaluateEntanglement: claims C14 and C19                                *)
(***************************************************************************)
\* the surfaces a hit of segment i for the loop id can have come from: valid,
\* not skipping the segment, and pierced by it
Sources(id, i) ==
  {k \in 1..Len(surfaces) :
     /\ surfaces[k].loop_id = id
     /\ surfaces[k].plane.valid /\ surfaces[k].polygon.valid
     /\ ~InSkipList(surfaces[k], i)
     /\ <<k, i>> \in geom}

\* the position of the segment with the given id in the traversal of the segments
SegmentPosition(id) == CHOOSE m \in 1..Len(segments_out) : segments_out[m].id = id

\* C14: the hits are ordered by the position, in the surface list, of the
\* first surface they can have been recorded for and, for one surface, by the
\* position of their segment in the traversal of the segments.
C14_HitOrder ==
  EvalReturned =>
    \A a, b \in 1..Len(result.hits) :
      a < b =>
        LET ha == result.hits[a]
            hb == result.hits[b]
        IN /\ Sources(ha.loop_id, ha.segment_id) # {}
           /\ Sources(hb.loop_id, hb.segment_id) # {}
           /\ LET ka == MinOf(Sources(ha.loop_id, ha.segment_id))
                  kb == MinOf(Sources(hb.loop_id, hb.segment_id))
              IN \/ ka < kb
                 \/ /\ ka = kb
                    /\ SegmentPosition(ha.segment_id) < SegmentPosition(hb.segment_id)

\* C14 witness: the first surface is pierced by a later segment than the
\* second surface, and its hit comes first
C14_Witness ==
  /\ EvalReturned
  /\ Len(result.hits) = 2
  /\ Len(surfaces) = 2
  /\ result.hits[1].loop_id = surfaces[1].loop_id
  /\ result.hits[2].loop_id = surfaces[2].loop_id
  /\ surfaces[1].loop_id # surfaces[2].loop_id
  /\ result.hits[1].segment_id > result.hits[2].segment_id

DistinctLoopIds ==
  \A k, k2 \in 1..Len(surfaces) : k # k2 => surfaces[k].loop_id # surfaces[k2].loop_id

\* the (surface, segment) pairs that pass the per-segment test
Passing ==
  {ks \in (1..Len(surfaces)) \X {segments_out[m].id : m \in 1..Len(segments_out)} :
     /\ surfaces[ks[1]].plane.valid /\ surfaces[ks[1]].polygon.valid
     /\ ~InSkipList(surfaces[ks[1]], ks[2])
     /\ ks \in geom}

\* C19: for surfaces with distinct loop ids the recorded (loop_id, segment_id)
\* keys are exactly those of the pairs (S, s) where S has a valid plane and a
\* valid polygon, no end of s is in S.skip_residues, s crosses the plane of S
\* and the crossing point is inside the polygon of S; no such pair is lost to
\* the dedupe, so K is their number.
C19_SoundAndComplete ==
  (EvalReturned /\ DistinctLoopIds) =>
    /\ HitKeys = {<<surfaces[ks[1]].loop_id, ks[2]>> : ks \in Passing}
    /\ result.K = Cardinality(Passing)

\* C19 witness: one segment pierces two surfaces of different loops, neither
\* of which skips it, and both hits are recorded
C19_Witness ==
  /\ EvalReturned /\ DistinctLoopIds
  /\ Len(surfaces) = 2
  /\ \E i \in 1..EvalRes :
       /\ <<1, i>> \in geom /\ <<2, i>> \in geom
       /\ <<surfaces[1].loop_id, i>> \in HitKeys /\ <<surfaces[2].loop_id, i>> \in HitKeys
  /\ result.K = 2

(***************************************************************************)
(* BuildSurfaces and EvaluateEntanglement on degenerate loops: claim C15   *)
(***************************************************************************)
SurfacesBuilt == pc \in {"Pipeline.BuildSurfaces", "Pipeline.EvaluateEntanglement"}

\* the record of residue r gives a finite coordinate at the atom index
FiniteCoordAt(r) ==
  \E k \in 1..Len(coords) :
    /\ coords[k].res_index = r
    /\ surface_options.atom_index \in 0..(Len(coords[k].atoms) - 1)
    /\ coords[k].atoms[surface_options.atom_index + 1] # "nan"

\* fewer than 3 residues of the boundary index list of the k-th loop have coordinates
Degenerate(k) ==
  Cardinality({r \in Range(BuildBoundaryIndices(loops[k], n_res)) : FiniteCoordAt(r)}) < 3

\* C15: for a loop whose boundary index list has fewer than 3 residues with
\* coordinates, BuildSurfaces (surface_builder.cpp) still returns a surface,
\* with plane.valid = false and polygon.valid = false, and raises no error,
\* and EvaluateEntanglement then records no hit with the loop's id and raises
\* no error.
C15_DegenerateLoopDropped ==
  (SurfacesBuilt /\ linked = "surface_builder.cpp") =>
    /\ error = NoError
    /\ Len(surfaces) = Len(loops)
    /\ \A k \in 1..Len(loops) :
         Degenerate(k) =>
           /\ surfaces[k].loop_id = loops[k].id
           /\ ~surfaces[k].plane.valid
           /\ ~surfaces[k].polygon.valid
           /\ PipelineDone => \A h \in 1..Len(result.hits) : result.hits[h].loop_id # loops[k].id

\* C15 witness: a hairpin of three residues, one of them with a NaN
\* coordinate, next to a loop that is pierced; the evaluation has returned
C15_Witness ==
  /\ PipelineDone /\ linked = "surface_builder.cpp"
  /\ \E k \in 1..Len(loops) :
       /\ Degenerate(k)
       /\ Len(BuildBoundaryIndices(loops[k], n_res)) = 3
       /\ \E r \in Range(BuildBoundaryIndices(loops[k], n_res)) : ~FiniteCoordAt(r)
  /\ result.K >= 1

(***************************************************************************)
(* BuildCoordMap: claim C16                                                *)
(***************************************************************************)
CoordMapBuilt == pc \in {"BuildCoordMap", "entanglement.cpp:BuildCoordMap"}

\* the table the called copy of BuildCoordMap builds from the list crds
TableOf(crds) ==
  IF pc = "BuildCoordMap" THEN BuildCoordMap(crds, surface_options.atom_index)
  ELSE BuildCoordMapMono(crds, surface_options.atom_index)

\* the lists that hold the records of the list crds in some order
Orderings(crds) ==
  {[k \in 1..Len(crds) |-> crds[q[k]]] :
     q \in {f \in [1..Len(crds) -> 1..Len(crds)] : \A a, b \in 1..Len(crds) : a # b => f[a] # f[b]}}

\* the record of residue r has res_index >= 1, an atom at atom_index, and the
\* three components of that atom are finite
PresentInInput(r) ==
  \E k \in 1..Len(coords) :
    /\ coords[k].res_index = r
    /\ r >= 1
    /\ surface_options.atom_index \in 0..(Len(coords[k].atoms) - 1)
    /\ coords[k].atoms[surface_options.atom_index + 1] # "nan"

\* C16 as stated: for records with distinct res_index BuildCoordMap returns the
\* same table for every ordering of the records, marks a residue present
\* iff its record has res_index >= 1, an atom at atom_index and three finite
\* components there, and raises no error.
C16_CoordMap ==
  CoordMapBuilt =>
    /\ error = NoError
    /\ \A crds \in Orderings(coords) : TableOf(crds) = coord_map_out
    /\ \A r \in DOMAIN coord_map_out.has_coord : coord_map_out.has_coord[r] <=> PresentInInput(r)

(***************************************************************************)
(* BuildLoops: the boundary residues, claims C17 and C18                   *)
(***************************************************************************)
\* the residues that are an endpoint of an input pair
PairedResidues == UNION {{p[1], p[2]} : p \in InputPairSet}

\* the unpaired residues of a..b in increasing order
UnpairedIn(a, b) == SortedSeq({r \in a..b : r \notin PairedResidues})

C18_BoundaryResiduesOnBoundary ==
  (LoopsReturned /\ NonCrossingValid)
    => \A m \in 1..Len(loops) : \A r \in Range(loops[m].boundary_residues) :
         /\ r \notin PairedResidues
         /\ OuterPair(loops[m])[1] < r /\ r < OuterPair(loops[m])[2]
         /\ \A c \in 2..Len(loops[m].closing_pairs) :
              ~(SortedPair(loops[m].closing_pairs[c])[1] < r
                  /\ r < SortedPair(loops[m].closing_pairs[c])[2])

(***************************************************************************)
(* The segments of an evaluation: claim C20                                *)
(***************************************************************************)
SegmentsBuilt == pc \in {"BuildSegmentsFromPolyline", "EvaluateEntanglement"}

\* C20 as stated: the segments built for one evaluation have the ids 1, 2,
\* ..., m in emission order, also when residues without coordinates leave
\* some links without a segment.
C20_SegmentIdsContiguous ==
  SegmentsBuilt => \A m \in 1..Len(segments_out) : segments_out[m].id = m

(***************************************************************************)
(* EvaluateEntanglement, the single-atom segments: claim C21               *)
(***************************************************************************)
\* the residue r has a record with an atom at atom_index 0
HasCoordinate(r) ==
  \E k \in 1..Len(coords) : coords[k].res_index = r /\ Len(coords[k].atoms) > 0

\* the atom at atom_index 0 of the last record of the residue r
CoordinateOf(r) ==
  coords[MaxOf({k \in 1..Len(coords) : coords[k].res_index = r /\ Len(coords[k].atoms) > 0})].atoms[1]

\* the largest residue index of the input
LastResidue == MaxOf({0} \cup {coords[k].res_index : k \in 1..Len(coords)})

\* the links (i, i+1), 1 <= i < n, whose two residues have a coordinate
LinksWithCoordinates ==
  {i \in 1..(LastResidue - 1) : HasCoordinate(i) /\ HasCoordinate(i + 1)}

SkipRule(loop) ==
  LET cp == loop.closing_pairs
      lo(k) == Min(cp[k].i, cp[k].j)
      hi(k) == Max(cp[k].i, cp[k].j)
  IN IF cp = <<>> THEN {}
     ELSE IF loop.kind = "kHairpin" THEN lo(1)..hi(1)
     ELSE IF loop.kind = "kInternal"
       THEN IF Len(cp) < 2 THEN lo(1)..hi(1)
            ELSE (lo(1)..lo(2)) \cup (hi(2)..hi(1))
     ELSE IF loop.kind = "kMulti"
       THEN MinOf({lo(k) : k \in 1..Len(cp)})..MaxOf({hi(k) : k \in 1..Len(cp)})
     ELSE {}

\* C22 as stated: the skip list of the surface of a loop holds, as a set, i..j
\* for a hairpin (i,j), i..k and l..j for an internal loop (i,j),(k,l), and
\* min..max over the ends of the closing pairs for a multi loop.
C22_SkipResidues ==
  SurfacesBuilt =>
    \A k \in 1..Len(surfaces) : Range(surfaces[k].skip_residues) = SkipRule(loops[k])

(***************************************************************************)
(* The boundary indices of a surface: claims C23 and C24                   *)
(***************************************************************************)
\* the boundary index list the linked BuildSurfaces uses for the k-th loop
BoundaryIndicesUsed(k) == LinkedBoundaryIndices(linked, loops[k], Len(coords))

\* the closing pairs of the loop as (left, right), sorted by left endpoint
SortedClosingPairs(loop) ==
  LET pairs == {SortedPair(loop.closing_pairs[k]) : k \in 1..Len(loop.closing_pairs)}
  IN CHOOSE sq \in [1..Cardinality(pairs) -> pairs] :
       /\ Range(sq) = pairs
       /\ \A a, b \in 1..Cardinality(pairs) : a < b => PairLess(sq[a], sq[b])

\* l..i_br-1, then i_br, then j_br
MultiBoundaryRule(loop) ==
  LET sq == SortedClosingPairs(loop)
      l == sq[1][1]
      nxt == MinOf({k \in 1..Len(sq) : sq[k][1] > l})
  IN Interval(l, sq[nxt][1] - 1) \o <<sq[nxt][1], sq[nxt][2]>>

\* C23 as stated: for a multi loop the boundary index list BuildSurfaces uses
\* is l..i_br-1, i_br, j_br, with l the left endpoint of the first closing
\* pair by left endpoint and (i_br, j_br) the next pair with a larger left
\* endpoint, and nothing else.
C23_MultiBoundary ==
  SurfacesBuilt =>
    \A k \in 1..Len(loops) :
      loops[k].kind = "kMulti" => BoundaryIndicesUsed(k) = MultiBoundaryRule(loops[k])

\* the sequence the rule of the loop's kind states, before any removal
StatedBoundary(loop) ==
  LET i == Min(loop.closing_pairs[1].i, loop.closing_pairs[1].j)
      j == Max(loop.closing_pairs[1].i, loop.closing_pairs[1].j)
  IN IF loop.kind = "kHairpin" THEN Interval(i, j)
     ELSE LET h == Min(loop.closing_pairs[2].i, loop.closing_pairs[2].j)
              l == Max(loop.closing_pairs[2].i, loop.closing_pairs[2].j)
          IN Interval(i, h - 1) \o <<h, l>> \o Interval(l + 1, j - 1) \o <<i, j>>

\* the entries of sq that are in 1..n and occur at no earlier position, in order
FirstOccurrencesInTable(sq, n) ==
  LET keep == {p \in 1..Len(sq) : sq[p] \in 1..n /\ \A q \in 1..(p - 1) : sq[q] # sq[p]}
  IN [m \in 1..Cardinality(keep) |-> sq[SortedSeq(keep)[m]]]

\* C24: for a hairpin (i,j) BuildBoundaryIndices returns i..j in increasing
\* order and for an internal loop (i,j),(h,l) the sequence i..h-1, h, l,
\* l+1..j-1, i, j without its later duplicates, so that i comes first and
\* once; the list of every loop has no repeated index and only indices in
\* 1..n_res of the coordinate table.
C24_HairpinInternalBoundary ==
  SurfacesBuilt =>
    \A k \in 1..Len(loops) :
      LET list == BuildBoundaryIndices(loops[k], Len(coords))
      IN /\ loops[k].kind \in {"kHairpin", "kInternal"}
              => list = FirstOccurrencesInTable(StatedBoundary(loops[k]), Len(coords))
         /\ loops[k].kind = "kHairpin"
              => \A a, b \in 1..Len(list) : a < b => list[a] < list[b]
         /\ loops[k].kind = "kInternal"
              => /\ list[1] = Min(loops[k].closing_pairs[1].i, loops[k].closing_pairs[1].j)
                 /\ \A a \in 2..Len(list) : list[a] # list[1]
         /\ \A a, b \in 1..Len(list) : a # b => list[a] # list[b]
         /\ \A a \in 1..Len(list) : list[a] \in 1..Len(coords)

\* an internal loop with unpaired residues on both strands, all in the table
C24_Witness ==
  /\ SurfacesBuilt
  /\ linked = "surface_builder.cpp"
  /\ Len(coords) = n_res
  /\ \E k \in 1..Len(loops) :
       /\ loops[k].kind = "kInternal"
       /\ loops[k].closing_pairs[2].i > loops[k].closing_pairs[1].i + 1
       /\ loops[k].closing_pairs[2].j < loops[k].closing_pairs[1].j - 1
       /\ Len(BuildBoundaryIndices(loops[k], Len(coords)))
            = Len(StatedBoundary(loops[k])) - 1

(***************************************************************************)
(* SegmentPlaneIntersection: claim C25                                     *)
(***************************************************************************)
CrossingTested == pc = "SegmentPlaneIntersection"

\* d_a and d_b are numbers of strictly opposite signs
OppositeSigns(d_a, d_b) ==
  /\ ~d_a.nan /\ ~d_b.nan
  /\ (d_a.v > 0 /\ d_b.v < 0) \/ (d_a.v < 0 /\ d_b.v > 0)

\* the magnitude of the distance is below eps_plane
Near(d, eps_plane) == ~d.nan /\ d.v < eps_plane.v /\ 0 - d.v < eps_plane.v

\* C25 as stated: SegmentPlaneIntersection reports no crossing when one of
\* the two signed distances has a magnitude below eps_plane, it reports a
\* crossing only when d_A and d_B have strictly opposite signs, and a segment
\* it rejects produces no hit.
C25_NearPlaneRejected ==
  CrossingTested =>
    /\ Near(crossing_out.d_a, crossing_out.eps_plane) \/ Near(crossing_out.d_b, crossing_out.eps_plane)
         => ~crossing_out.crossing
    /\ crossing_out.crossing => OppositeSigns(crossing_out.d_a, crossing_out.d_b)
    /\ ~crossing_out.crossing => ~crossing_out.hit

(***************************************************************************)
(* BuildPairMap, the rejections: claim C26                                 *)
(***************************************************************************)
\* the k-th pair has an endpoint <= 0 or > n
RangeDefect(k) ==
  \/ base_pairs[k].i <= 0 \/ base_pairs[k].i > n_res
  \/ base_pairs[k].j <= 0 \/ base_pairs[k].j > n_res

SelfDefect(k) == base_pairs[k].i = base_pairs[k].j

\* the k-th pair has a residue of an earlier pair of the list
ReuseDefect(k) ==
  \E m \in 1..(k - 1) :
    {base_pairs[k].i, base_pairs[k].j} \cap {base_pairs[m].i, base_pairs[m].j} # {}

OffendingPairs == {k \in 1..Len(base_pairs) : RangeDefect(k) \/ SelfDefect(k) \/ ReuseDefect(k)}

\* C26: BuildPairMap rejects a list iff some pair has an endpoint <= 0 or > n,
\* some pair has i = j, or some residue occurs in more than one pair; the
\* error is that of the first offending pair of the list, the range error
\* before the self-pair error before the multiply-paired error.
C26_PairMapRejections ==
  PairMapCalled =>
    /\ error # NoError
         <=> \/ HasOutOfRange(base_pairs, n_res)
             \/ HasSelfPair(base_pairs)
             \/ HasMultiplyPaired(base_pairs)
    /\ error # NoError
         => /\ OffendingPairs # {}
            /\ LET k == MinOf(OffendingPairs)
               IN error = IF RangeDefect(k) THEN ErrOutOfRange
                          ELSE IF SelfDefect(k) THEN ErrSelfPaired
                          ELSE ErrMultiplyPaired

\* a list with several defects: the second pair is a self-pair of a residue
\* the first pair has taken, and the self-pair error is the one reported
C26_Witness ==
  /\ PairMapCalled
  /\ Len(base_pairs) = 2
  /\ ~RangeDefect(1) /\ ~SelfDefect(1)
  /\ ~RangeDefect(2) /\ SelfDefect(2) /\ ReuseDefect(2)
  /\ error = ErrSelfPaired

(***************************************************************************)
(* The backtrace of the main-layer extractor: claim C28                    *)
(***************************************************************************)
\* the largest number of input pairs of which no two cross and no two share
\* a residue
MaxMatching(bps) == MaxOf({Cardinality(Q) : Q \in MatchingSubsets(bps)})

\* C28: the backtrace ends (after at most 2L - 1 worklist nodes), emits
\* exactly gamma(0, L-1) pairs, that number is the largest size of a set of
\* input pairs without crossing and without a residue in two pairs, and
\* every worklist node with i < j matches one of the four cases.
C28_BacktraceEmitsGamma ==
  (LayerReturned \/ (LayerReturnedAgain /\ error = NoError)) =>
    /\ trace_out.emitted = trace_out.gamma_top
    /\ Len(layer) = trace_out.emitted
    /\ trace_out.gamma_top = MaxMatching(base_pairs)
    /\ trace_out.dropped = 0
    /\ trace_out.steps <= Max(2 * trace_out.L - 1, 0)

\* the input has two crossing pairs and the layer two pairs side by side,
\* which only the split case can give
C28_Witness ==
  /\ LayerReturned
  /\ \E k, m \in 1..Len(base_pairs) :
       Crosses(SortedPair(base_pairs[k]), SortedPair(base_pairs[m]))
  /\ \E k, m \in 1..Len(layer) : layer[k].j < layer[m].i
  /\ trace_out.emitted = 2
  /\ trace_out.gamma_top = 2

(***************************************************************************)
(* The layer is a matching: claim C29                                      *)
(***************************************************************************)
\* C29: every pair ExtractMainLayer returns has i < j and the endpoints of
\* an input pair, no pair is returned twice and no residue is in two returned
\* pairs; so BuildPairMap on the layer, as BuildLoops calls it with
\* main_layer_only, never fails with 'Residue paired multiple times'.
C29_LayerIsMatching ==
  /\ LayerReturned =>
       /\ \A k \in 1..Len(layer) :
            /\ layer[k].i < layer[k].j
            /\ <<layer[k].i, layer[k].j>> \in UnorderedPairs(base_pairs)
       /\ \A k, m \in 1..Len(layer) :
            k # m => {layer[k].i, layer[k].j} \cap {layer[m].i, layer[m].j} = {}
  /\ (LoopsCalled /\ options.main_layer_only) => error # ErrMultiplyPaired

\* BuildLoops with main_layer_only went through on a list in which a residue
\* occurs in two pairs
C29_Witness ==
  /\ LoopsCalled
  /\ options.main_layer_only
  /\ HasMultiplyPaired(base_pairs)
  /\ error = NoError
  /\ Len(loops) >= 1

(***************************************************************************)
(* BuildLoops with and without include_multi: claim C30                    *)
(***************************************************************************)
BothLoopListsReturned == pc = "BuildLoops.include_multi" /\ error = NoError

\* a loop without its id
WithoutId(loop) ==
  [kind |-> loop.kind, closing_pairs |-> loop.closing_pairs,
   boundary_residues |-> loop.boundary_residues]

\* the loops of the list that are not multi loops, in order, without their ids
OtherLoops(ls) ==
  LET keep == {k \in 1..Len(ls) : ls[k].kind # "kMulti"}
  IN [m \in 1..Cardinality(keep) |-> WithoutId(ls[SortedSeq(keep)[m]])]

\* C30: without include_multi BuildLoops returns no multi loop, and the other
\* loops, those of pairs inside an omitted multi loop included, are the ones
\* it returns with include_multi, with the same kind, closing pairs and
\* boundary residues and in the same order; only the ids differ, being 1, 2,
\* ... in both lists.
C30_IncludeMultiFrame ==
  /\ (LoopsReturned /\ ~options.include_multi)
       => \A k \in 1..Len(loops) : loops[k].kind # "kMulti"
  /\ BothLoopListsReturned =>
       /\ [k \in 1..Len(loops) |-> WithoutId(loops[k])] = OtherLoops(loops_multi)
       /\ \A k \in 1..Len(loops) : loops[k].id = k
       /\ \A k \in 1..Len(loops_multi) : loops_multi[k].id = k

\* the call with include_multi returned a multi loop first, and the call
\* without it returned the loops of two pairs inside that multi loop
C30_Witness ==
  /\ BothLoopListsReturned
  /\ Len(loops) >= 2
  /\ Len(loops_multi) = Len(loops) + 1
  /\ loops_multi[1].kind = "kMulti"
  /\ loops_multi[2].id = 2 /\ loops[1].id = 1
  /\ WithoutId(loops_multi[2]) = WithoutId(loops[1])

(***************************************************************************)
(* ConvexHull: claim C27                                                   *)
(***************************************************************************)
HullCalled == pc = "ConvexHull"

\* the list b is the list a started at another vertex
IsRotation(a, b) ==
  /\ Len(a) = Len(b)
  /\ a = <<>> \/ \E sh \in 0..(Len(a) - 1) :
                   \A k \in 1..Len(a) : b[k] = a[((k - 1 + sh) % Len(a)) + 1]

\* C27 as stated: for at least 3 distinct points, ConvexHull of the hull is
\* the hull up to a rotation of the vertex list, and no vertex of the hull
\* is repeated.
C27_HullIdempotent ==
  HullCalled =>
    /\ IsRotation(hull_out.hull, hull_out.hull_of_hull)
    /\ \A k, m \in 1..Len(hull_out.hull) : k # m => hull_out.hull[k] # hull_out.hull[m]

====
